---- MODULE Spec2Model ----
(***************************************************************************)
(* Queue-driven assistant worker: the broker consumer callback (main.py),  *)
(* the conversation pipeline run_conversation with its single-flight lock, *)
(* the session cache (redis_service.py) and the provider threads           *)
(* (openai_service.py), and the streaming relay's completion flag          *)
(* (event_handler.py).                                                     *)
(*                                                                         *)
(* Spec is the consumer as main() runs it: one thread handling one         *)
(* delivery at a time.  SpecThreads has the threads of Workers call        *)
(* process_message concurrently, which is what conversation_lock guards    *)
(* against.  The broker channel                                            *)
(* (basic_ack / basic_reject / basic_publish) is taken as atomic and       *)
(* reliable.  The pub/sub transport, the cache and the provider may fail   *)
(* at every call.  The SIGALRM of timeout(90) is delivered while the       *)
(* thread is blocked in an operation that takes time (network I/O, sleep); *)
(* a parameter a of an action is TRUE when the alarm lands in that step.   *)
(***************************************************************************)
EXTENDS Integers, Sequences, FiniteSets, TLC

\* ---------------------------------------------------------------- bounds
MaxDeliveries == 2      \* deliveries the broker hands to the process
MaxThreads == 2         \* provider threads that can be created
MaxEvents == 1          \* events one run can stream
MaxDeltas == 2          \* text deltas one run delivers to the relay
MaxRounds == 1          \* tool-call round trips of one run
MaxTools == 2           \* tool calls of one requires_action event
MaxCalls == 3           \* register/unregister calls made on the registry
MaxRunCompleted == 2    \* run.completed events one run delivers to the relay
MaxMessages == 3        \* create_message calls made on one provider thread
MaxTicks == 1           \* seconds that pass while the relay runs

Workers == {"w1", "w2"}
Channels == {"c1"}              \* channels of the deliveries the consumer gets
AllChannels == {"c1", "c2"}     \* channels of the jobs concurrent callers bring
ThreadNames == <<"t1", "t2", "t3", "t4", "t5", "t6">>

\* ------------------------------------------------------- values of a job
None == "None"          \* Python None, also dict.get of a missing key
Empty == ""             \* the empty string
NotStr == "<non-str>"   \* a truthy value that is no string (a number, a list)

MessageValues == {"hi", None, NotStr}
ChannelValues == Channels \cup {None, Empty, NotStr}
MessageIdValues == {"m1", None, Empty, NotStr}
BodyKinds == {"badjson", "nonobject", "object"}

IsStr(v) == v \notin {None, NotStr}     \* isinstance(v, str)
Falsy(v) == v \in {None, Empty}         \* not v

NoJob == [body |-> "none", message |-> None, channel |-> None,
          message_id |-> None, reply_to |-> FALSE]

\* error_msg values of process_message / run_conversation
MsgNoAssistant == "No assistant ID found in Redis"
MsgLockBusy == "Another conversation is already in progress"
MsgConnect == "Failed to connect to WebSocket server"
MsgSubscribe == "Failed to subscribe to WebSocket channel"
MsgNotFound == "Thread not found or was deleted during conversation."
MsgTimeout == "Processing timed out"
MsgNoResponse == "No response received from assistant"
MsgInterrupted == "Response stream interrupted"
MsgConversation == "Error in conversation"
MsgProcessing == "Error processing message"

VARIABLES
    conversation_lock,  \* main.py:41  TRUE while the threading.Lock is locked
    pc,                 \* per worker: where its invocation stands
    job,                \* per worker: the delivery being processed
    loc,                \* per worker: locals of callback / run_conversation / relay
    out,                \* per worker: what the current delivery has caused so far
    cache,              \* per channel: thread:{channel}, metadata:{channel} and TTLs
    liveThreads,        \* threads that exist at the provider
    nextThread,         \* index of the next thread the provider creates
    delivered,          \* deliveries handed out so far
    hist,               \* per channel: record of the resolutions (for the claims)
    redis_up,           \* redis_service.py:13-24  FALSE when RedisService.redis is None
    sock,               \* one WebSocketService with its server side
    relay,              \* one CosmoEventHandler chain with what it published
    registry,           \* registry.py:63  the AssistantToolRegistry and the calls made on it
    provider,           \* one provider thread, its run, and the create_message calls on it
    procs               \* per worker process: its place in the session resolution

\* The worker with its cache client, and the components modelled on their
\* own below.
core == <<conversation_lock, pc, job, loc, out, cache, liveThreads, nextThread,
          delivered, hist, redis_up>>
rest == <<registry, provider, procs>>
svc == <<sock, relay, rest>>
vars == <<core, svc>>

NoLoc == [alarm |-> "off", success |-> FALSE, should_requeue |-> FALSE,
          error_msg |-> "", exc |-> "none", thread_id |-> None, ws |-> FALSE,
          is_complete |-> FALSE, has_started |-> FALSE, handoff |-> FALSE,
          phase |-> "none", nev |-> 0]

NoOut == [acks |-> 0, rejects |-> 0, requeue |-> FALSE, replies |-> 0,
          errSent |-> 0, sendFailed |-> FALSE, timeoutNote |-> FALSE,
          completedSent |-> FALSE, rcCalled |-> FALSE, heldAtCall |-> FALSE,
          wsOpened |-> FALSE, cacheUsed |-> FALSE, msgCreated |-> FALSE,
          runStarted |-> FALSE, observedComplete |-> FALSE, nfSeen |-> FALSE,
          nfDeleted |-> FALSE]

\* metadata:{channel}: absent, or the stored message_count
NoMeta == [present |-> FALSE, message_count |-> 0]
Meta(n) == [present |-> TRUE, message_count |-> n]
NoEntry == [thread |-> None, meta |-> NoMeta, ttlThread |-> "none", ttlMeta |-> "none"]
NoHist == [prev |-> None, last |-> None, delSince |-> FALSE, delBetween |-> FALSE,
           stale |-> {}]

\* A key that does not depend on the channel.
get_thread_key_shared(channel_id) == <<"thread:", "c1">>

\* RedisService._get_thread_key (redis_service.py:26-28): prefix, "thread:" and
\* the channel id; _get_metadata_key (redis_service.py:30-32) is built from the
\* same channel id, so one cache entry holds both keys of a channel.
get_thread_key(channel_id) == <<"thread:", channel_id>>

CacheKeys == {get_thread_key(c) : c \in AllChannels}

\* WebSocketService.max_retries (websocket_service.py:18).
max_retries == 3

\* No send_message has been called yet.
NoCall == [pc |-> "idle", channel |-> None, retries |-> 0, attempts |-> 0,
           frames |-> <<>>, error |-> None, pre |-> None, subs_before |-> {},
           closed_failures |-> 0, blind_retries |-> 0, initial |-> "none"]

\* AssistantToolRegistry.__init__ (registry.py:23-24): no tool; no call yet.
NoRegistry == [tools |-> <<>>, calls |-> <<>>]

\* The run statuses check_active_runs counts as active (openai_service.py:118).
ActiveStatuses == {"queued", "in_progress", "requires_action"}

\* A provider thread with no run yet and no create_message call in progress.
\* status is the status of the thread's latest run, call the position of each
\* worker process inside create_message / stream_conversation, created the
\* run status the thread had at each messages.create call, calls the number
\* of create_message calls made.
NoProvider == [status |-> "none", call |-> [w \in Workers |-> "idle"],
               created |-> <<>>, calls |-> 0]

\* A worker process that has entered the get-or-create block of
\* run_conversation (main.py:155-157): thread_id and metadata are its locals,
\* missed says that get_thread_id returned nothing.
NoProc == [pc |-> "get", thread_id |-> None, missed |-> FALSE, message_count |-> 0]

\* connect() has not been called yet.
NoConnect == [outcomes |-> <<>>,
              result |-> [websocket |-> None, raised |-> FALSE,
                          attempts |-> 0, sleeps |-> 0]]

\* WebSocketService.__init__ (websocket_service.py:13-23): no connection, no
\* subscribed channel, no loop, no ping task.  websocket is None, "open" or
\* "closed" (an object whose .closed is true); server is what the other end of
\* the current connection has subscribed; call is the send_message in progress
\* or last made; last_connect and healed note what the last connect() and the
\* last pass of the liveness task did.
NoSock == [websocket |-> None, server |-> {}, subscribed_channels |-> {},
           loop |-> FALSE, ping_task |-> FALSE, call |-> NoCall,
           last_connect |-> NoConnect, healed |-> FALSE]

\* CosmoEventHandler.min_chunk_size (event_handler.py:41) and the interval of
\* the flush condition in seconds (event_handler.py:143).
min_chunk_size == 10
min_send_interval == 1

\* CosmoEventHandler.__init__ (event_handler.py:16-60): the fields the relay
\* works with.  The text is a sequence of characters.
Handler == [message_content |-> <<>>, accumulated_content |-> <<>>,
            last_ws_send_time |-> 0, is_complete |-> FALSE]

\* time.time() is far past 0, the initial last_ws_send_time.
StartTime == min_send_interval

\* The handler run_conversation hands to stream_conversation (main.py:198-220),
\* with the 90 s alarm armed by the callback, the transport connected and
\* nothing published yet.  polled is the is_complete of that first handler, the
\* one the wait loop of run_conversation reads (main.py:224); attempt says
\* whether the delta just handled made a send attempt and how it ended (none
\* once anything else has happened); finals are the
\* final messages a send was attempted for and completed_at the number of
\* deltas that had arrived by then.
NoRelay == [h |-> Handler, phase |-> "streaming", clock |-> StartTime,
            alarm |-> "armed", deltas |-> <<>>, published |-> <<>>,
            calls |-> <<>>, i |-> 1, tool_outputs |-> <<>>,
            requested |-> <<>>, submitted |-> <<>>, rounds |-> 0,
            polled |-> FALSE, connected |-> TRUE, attempt |-> "none",
            finals |-> <<>>, completed_at |-> 0, run_completed |-> 0]

Init ==
    /\ conversation_lock = FALSE
    /\ pc = [w \in Workers |-> "idle"]
    /\ job = [w \in Workers |-> NoJob]
    /\ loc = [w \in Workers |-> NoLoc]
    /\ out = [w \in Workers |-> NoOut]
    /\ cache = [k \in CacheKeys |-> NoEntry]
    /\ liveThreads = {}
    /\ nextThread = 1
    /\ delivered = 0
    /\ hist = [c \in AllChannels |-> NoHist]
    /\ redis_up \in BOOLEAN
    /\ sock = NoSock
    /\ relay = NoRelay
    /\ registry = NoRegistry
    /\ provider = NoProvider
    /\ procs = [w \in Workers |-> NoProc]

\* The alarm can land in a blocking step only while it is armed (main.py:79).
AlarmChoices(w) == IF loc[w].alarm = "armed" THEN {FALSE, TRUE} ELSE {FALSE}
Fire(l, a) == IF a THEN [l EXCEPT !.alarm = "fired"] ELSE l

\* send_message raises at once when the transport has no connection
\* (websocket_service.py:153-155); otherwise it succeeds or fails.
SendOutcomes(w) == IF loc[w].ws THEN {TRUE, FALSE} ELSE {FALSE}

\* One attempt to publish a status=error message on the job's channel.
Notify(o, ok, isTimeout) ==
    [o EXCEPT !.errSent = @ + (IF ok THEN 1 ELSE 0),
              !.sendFailed = @ \/ ~ok,
              !.timeoutNote = @ \/ (ok /\ isTimeout)]

\* ------------------------------------------------------------- callback
\* The broker invokes callback(ch, method, properties, body): main.py:1051-1055.
Deliver(w) ==
    /\ pc[w] = "idle"
    /\ delivered < MaxDeliveries
    /\ \E b \in BodyKinds, m \in MessageValues, c \in ChannelValues,
          i \in MessageIdValues, r \in BOOLEAN :
          /\ (b # "object") => (m = None /\ c = None /\ i = None)
          /\ job' = [job EXCEPT ![w] = [body |-> b, message |-> m, channel |-> c,
                                        message_id |-> i, reply_to |-> r]]
    /\ loc' = [loc EXCEPT ![w] = [NoLoc EXCEPT !.alarm = "armed"]]
    /\ out' = [out EXCEPT ![w] = NoOut]
    /\ pc' = [pc EXCEPT ![w] = "cb_parse"]
    /\ delivered' = delivered + 1
    /\ UNCHANGED <<redis_up, svc>>
    /\ UNCHANGED <<conversation_lock, cache, liveThreads, nextThread, hist>>

\* How many replies the parse-error branch publishes to properties.reply_to
\* (main.py:1063-1069).
ParseErrorRepliesAlways(reply_to) == 1

ParseErrorReplies(reply_to) == IF reply_to THEN 1 ELSE 0

\* json.loads fails: reply to reply_to when present, reject, return
\* (main.py:1056-1073).
CallbackParseError(w) ==
    /\ pc[w] = "cb_parse"
    /\ job[w].body = "badjson"
    /\ out' = [out EXCEPT ![w].replies = @ + ParseErrorReplies(job[w].reply_to),
                          ![w].rejects = @ + 1,
                          ![w].requeue = FALSE]
    /\ pc' = [pc EXCEPT ![w] = "done"]
    /\ UNCHANGED <<redis_up, svc>>
    /\ UNCHANGED <<conversation_lock, job, loc, cache, liveThreads, nextThread,
                   delivered, hist>>

\* The body parses to a value that is no object: message_data.get raises
\* AttributeError (main.py:1076), the generic handler runs with success False
\* (main.py:1172-1173), its own message_data.get raises again (main.py:1180) and
\* is swallowed by the inner except (main.py:1212-1215): nothing is settled.
CallbackNotObject(w) ==
    /\ pc[w] = "cb_parse"
    /\ job[w].body = "nonobject"
    /\ pc' = [pc EXCEPT ![w] = "done"]
    /\ UNCHANGED <<redis_up, svc>>
    /\ UNCHANGED <<conversation_lock, job, loc, out, cache, liveThreads, nextThread,
                   delivered, hist>>

\* A validation that leaves out the message_id checks.
ValidationErrorNoId(d) ==
    IF ~IsStr(d.message) THEN "Invalid or missing 'message' field"
    ELSE IF Falsy(d.channel) THEN "Missing required 'channel' field"
    ELSE IF ~IsStr(d.channel) THEN "Invalid 'channel' field"
    ELSE ""

\* process_message's field validation (main.py:353-383): the error message, or
\* "" when the fields are valid.
ValidationError(d) ==
    IF ~IsStr(d.message) THEN "Invalid or missing 'message' field"
    ELSE IF Falsy(d.channel) THEN "Missing required 'channel' field"
    ELSE IF ~IsStr(d.channel) THEN "Invalid 'channel' field"
    ELSE IF Falsy(d.message_id) THEN "Missing required 'message_id' field"
    ELSE IF ~IsStr(d.message_id) THEN "Invalid 'message_id' field"
    ELSE ""

\* The body is an object: the callback calls process_message (main.py:1076-1081),
\* which validates the fields and either returns (False, False, error) or calls
\* run_conversation (main.py:353-391).
ProcessMessage(w) ==
    /\ pc[w] = "cb_parse"
    /\ job[w].body = "object"
    /\ IF ValidationError(job[w]) # ""
       THEN /\ loc' = [loc EXCEPT ![w].success = FALSE,
                                 ![w].should_requeue = FALSE,
                                 ![w].error_msg = ValidationError(job[w])]
            /\ pc' = [pc EXCEPT ![w] = "cb_failed"]
            /\ out' = out
       ELSE /\ out' = [out EXCEPT ![w].rcCalled = TRUE,
                                 ![w].heldAtCall = conversation_lock]
            /\ pc' = [pc EXCEPT ![w] = "rc_assistant"]
            /\ loc' = loc
    /\ UNCHANGED <<redis_up, svc>>
    /\ UNCHANGED <<conversation_lock, job, cache, liveThreads, nextThread,
                   delivered, hist>>

\* success is True: basic_ack and return (main.py:1083-1089).
CallbackAck(w) ==
    /\ pc[w] = "cb_ok"
    /\ out' = [out EXCEPT ![w].acks = @ + 1]
    /\ pc' = [pc EXCEPT ![w] = "done"]
    /\ UNCHANGED <<redis_up, svc>>
    /\ UNCHANGED <<conversation_lock, job, loc, cache, liveThreads, nextThread,
                   delivered, hist>>

\* success is False: the error notification over a fresh transport, whose
\* failure (also an alarm landing in it) is swallowed, then basic_reject with
\* requeue=False (main.py:1091-1125).
CallbackFail(w) ==
    /\ pc[w] = "cb_failed"
    /\ \E ok \in BOOLEAN, a \in AlarmChoices(w) :
          /\ a => ~ok
          /\ out' = [out EXCEPT ![w] = [Notify(@, ok, FALSE) EXCEPT
                                           !.rejects = @ + 1, !.requeue = FALSE]]
          /\ loc' = [loc EXCEPT ![w] = Fire(@, a)]
    /\ pc' = [pc EXCEPT ![w] = "done"]
    /\ UNCHANGED <<redis_up, svc>>
    /\ UNCHANGED <<conversation_lock, job, cache, liveThreads, nextThread,
                   delivered, hist>>

\* The alarm lands in the callback itself once process_message has returned
\* after run_conversation used up the 90 s (main.py:1079-1092).  The
\* TimeoutError handler does nothing when success is already True; otherwise it
\* sends a type=timeout notification over a fresh transport and rejects, and
\* when connecting, subscribing or sending fails the reject is skipped
\* (main.py:1127-1170).
CallbackTimeout(w) ==
    /\ pc[w] \in {"cb_ok", "cb_failed"}
    /\ out[w].rcCalled
    /\ loc[w].alarm = "armed"
    /\ IF loc[w].success
       THEN out' = out
       ELSE \E ok \in BOOLEAN :
               out' = [out EXCEPT ![w] = [Notify(@, ok, TRUE) EXCEPT
                                             !.rejects = @ + (IF ok THEN 1 ELSE 0),
                                             !.requeue = FALSE]]
    /\ loc' = [loc EXCEPT ![w].alarm = "fired"]
    /\ pc' = [pc EXCEPT ![w] = "done"]
    /\ UNCHANGED <<redis_up, svc>>
    /\ UNCHANGED <<conversation_lock, job, cache, liveThreads, nextThread,
                   delivered, hist>>

\* The callback returns: the with-block disarms the alarm (main.py:83-85) and the
\* invocation's locals are gone.
CallbackReturn(w) ==
    /\ pc[w] = "done"
    /\ pc' = [pc EXCEPT ![w] = "idle"]
    /\ job' = [job EXCEPT ![w] = NoJob]
    /\ loc' = [loc EXCEPT ![w] = NoLoc]
    /\ out' = [out EXCEPT ![w] = NoOut]
    /\ UNCHANGED <<redis_up, svc>>
    /\ UNCHANGED <<conversation_lock, cache, liveThreads, nextThread, delivered, hist>>

\* ------------------------------------------------------- run_conversation
\* run_conversation returns before the try block: process_message hands
\* (False, True, msg) to the callback (main.py:113, 119, 386-396).
ReturnEarly(l, msg) ==
    [l EXCEPT !.success = FALSE, !.should_requeue = TRUE, !.error_msg = msg]

\* redis_service.get_assistant_id() (main.py:107-113, redis_service.py:167-184):
\* None when there is no client, when the key is absent or when the read
\* raises (an alarm landing in the read is swallowed there too).
GetAssistant(w) ==
    /\ pc[w] = "rc_assistant"
    /\ \E found \in BOOLEAN, a \in AlarmChoices(w) :
          /\ a => ~found
          /\ found => redis_up
          /\ IF found
             THEN /\ pc' = [pc EXCEPT ![w] = "rc_lock"]
                  /\ loc' = loc
             ELSE /\ pc' = [pc EXCEPT ![w] = "cb_failed"]
                  /\ loc' = [loc EXCEPT ![w] = Fire(ReturnEarly(@, MsgNoAssistant), a)]
    /\ UNCHANGED <<redis_up, svc>>
    /\ UNCHANGED <<conversation_lock, job, out, cache, liveThreads, nextThread,
                   delivered, hist>>

\* An acquire that lets every caller in.
acquire_always(locked) == [entered |-> TRUE, lock |-> TRUE]

\* An acquire whose busy branch leaves the lock released.
acquire_steals(locked) ==
    IF locked THEN [entered |-> FALSE, lock |-> FALSE]
              ELSE [entered |-> TRUE, lock |-> TRUE]

\* conversation_lock.acquire(blocking=False) and the early return when it is
\* held (main.py:115-119): whether the caller enters, and the lock afterwards.
acquire_nonblocking(locked) ==
    IF locked THEN [entered |-> FALSE, lock |-> locked]
              ELSE [entered |-> TRUE, lock |-> TRUE]

AcquireLock(w) ==
    /\ pc[w] = "rc_lock"
    /\ LET r == acquire_nonblocking(conversation_lock) IN
          /\ conversation_lock' = r.lock
          /\ IF r.entered
             THEN /\ pc' = [pc EXCEPT ![w] = "rc_connect"]
                  /\ loc' = loc
             ELSE /\ pc' = [pc EXCEPT ![w] = "cb_failed"]
                  /\ loc' = [loc EXCEPT ![w] = ReturnEarly(@, MsgLockBusy)]
    /\ UNCHANGED <<redis_up, svc>>
    /\ UNCHANGED <<job, out, cache, liveThreads, nextThread, delivered, hist>>

\* A return statement inside the try block: the finally blocks still run
\* (main.py:139, 148, 274, 293, 311, 328).
Return(l, ok, msg) ==
    [l EXCEPT !.success = ok, !.should_requeue = TRUE, !.error_msg = msg,
              !.exc = "none"]

\* loop.run_until_complete(websocket_service.connect()) (main.py:134-139).
Connect(w) ==
    /\ pc[w] = "rc_connect"
    /\ \E ok \in BOOLEAN, a \in AlarmChoices(w) :
          /\ a => ~ok
          /\ IF ok
             THEN /\ pc' = [pc EXCEPT ![w] = "rc_subscribe"]
                  /\ loc' = loc
             ELSE /\ pc' = [pc EXCEPT ![w] = "rc_finally"]
                  /\ loc' = [loc EXCEPT ![w] = Fire(Return(@, FALSE, MsgConnect), a)]
    /\ out' = [out EXCEPT ![w].wsOpened = TRUE]
    /\ UNCHANGED <<redis_up, svc>>
    /\ UNCHANGED <<conversation_lock, job, cache, liveThreads, nextThread,
                   delivered, hist>>

\* subscribe(channel), then the first CosmoEventHandler, whose status send
\* swallows every exception (main.py:141-153, event_handler.py:45-60).
Subscribe(w) ==
    /\ pc[w] = "rc_subscribe"
    /\ \E ok \in BOOLEAN, a \in AlarmChoices(w) :
          IF ok
          THEN /\ pc' = [pc EXCEPT ![w] = "rc_resolve"]
               /\ loc' = [loc EXCEPT ![w] = Fire([@ EXCEPT !.ws = TRUE], a)]
          ELSE /\ pc' = [pc EXCEPT ![w] = "rc_finally"]
               /\ loc' = [loc EXCEPT ![w] = Fire(Return(@, FALSE, MsgSubscribe), a)]
    /\ UNCHANGED <<redis_up, svc>>
    /\ UNCHANGED <<conversation_lock, job, out, cache, liveThreads, nextThread,
                   delivered, hist>>

\* ------------------------------------------------------- session cache
\* RedisService.get_thread_id (redis_service.py:34-57): the channel id itself
\* when there is no client; otherwise the cached id, with both TTLs refreshed
\* on a hit, and None on a miss or when the read raises.
get_thread_id(e, channel_id, up, ok) ==
    IF ~up THEN [thread_id |-> channel_id, entry |-> e]
    ELSE IF ok /\ e.thread # None
    THEN [thread_id |-> e.thread,
          entry |-> [e EXCEPT !.ttlThread = "fresh",
                              !.ttlMeta = IF e.meta.present THEN "fresh" ELSE @]]
    ELSE [thread_id |-> None, entry |-> e]

\* RedisService.set_thread_id (redis_service.py:59-84): setex, or nothing when
\* the write raises.
set_thread_id(e, tid, ok) ==
    IF ok THEN [e EXCEPT !.thread = tid, !.ttlThread = "fresh"] ELSE e

\* RedisService.get_thread_metadata (redis_service.py:86-108): message_count of
\* the stored metadata, 0 for the empty dict (main.py:194).
get_thread_metadata(e, ok) ==
    IF ok /\ e.meta.present
    THEN [message_count |-> e.meta.message_count, entry |-> [e EXCEPT !.ttlMeta = "fresh"]]
    ELSE [message_count |-> 0, entry |-> e]

\* RedisService.set_thread_metadata (redis_service.py:110-137).
set_thread_metadata(e, count, ok) ==
    IF ok THEN [e EXCEPT !.meta = Meta(count), !.ttlMeta = "fresh"] ELSE e

\* A delete that removes nothing.
delete_thread_noop(e, ok) == e

\* RedisService.delete_thread (redis_service.py:139-161): both keys, or nothing
\* when the delete raises.
delete_thread(e, ok) == IF ok THEN NoEntry ELSE e

\* OpenAIService.check_thread_exists (openai_service.py:13-33): True only when
\* the retrieve succeeds; NotFoundError and every other exception give False.
check_thread_exists(tid, live, probeOk) == probeOk /\ tid \in live

\* A get-or-create block that trusts every cached id.
NeedsThreadOnMiss(tid, live, probeOk) == tid = None

\* Whether the get-or-create block asks the provider for a new thread
\* (main.py:160, 182-183).
NeedsThread(tid, live, probeOk) ==
    IF tid = None THEN TRUE ELSE ~check_thread_exists(tid, live, probeOk)

\* The get-or-create block and the metadata update of run_conversation
\* (main.py:155-196) when create_thread does not raise: the thread_id the job
\* uses and the cache entry afterwards.  new is the id create_thread returns.
Resolution(e, channel_id, up, live, new, getOk, probeOk, setOk, metaOk) ==
    LET g == get_thread_id(e, channel_id, up, getOk)
        fresh == NeedsThread(g.thread_id, live, probeOk)
        tid == IF fresh THEN new ELSE g.thread_id
        e1 == IF fresh THEN set_thread_id(g.entry, new, setOk) ELSE g.entry
        e2 == IF g.thread_id = None THEN set_thread_metadata(e1, 0, metaOk) ELSE e1
        m == get_thread_metadata(e2, metaOk)
        e3 == set_thread_metadata(m.entry, m.message_count + 1, metaOk)
    IN  [thread_id |-> tid, entry |-> e3, created |-> fresh]

\* A resolution has returned tid for channel c.
Resolved(h, tid) ==
    [h EXCEPT !.prev = h.last, !.last = tid, !.delBetween = h.delSince,
              !.delSince = FALSE]

\* main.py:155-206: resolve the session, then recreate the event handler (its
\* status send swallows every exception).  create_thread raising leaves the
\* try block: an alarm landing in it is a TimeoutError, anything else an
\* Exception.
Resolve(w) ==
    /\ pc[w] = "rc_resolve"
    /\ LET c == job[w].channel
           k == get_thread_key(c)
           new == ThreadNames[nextThread]
       IN \E getOk, probeOk, setOk, metaOk \in BOOLEAN, a \in AlarmChoices(w),
             create \in {"ok", "error", "timeout"} :
          LET g == get_thread_id(cache[k], c, redis_up, getOk)
              r == Resolution(cache[k], c, redis_up, liveThreads, new,
                              getOk, probeOk, setOk, metaOk)
          IN  /\ ~redis_up => ~(getOk \/ setOk \/ metaOk)
              /\ (create = "timeout") => a
              /\ (create = "ok" /\ r.created) => nextThread <= MaxThreads
              /\ IF r.created /\ create # "ok"
                 THEN /\ cache' = [cache EXCEPT ![k] = g.entry]
                      /\ loc' = [loc EXCEPT ![w] =
                                   Fire([@ EXCEPT !.thread_id = g.thread_id,
                                                  !.error_msg = MsgTimeout,
                                                  !.exc = IF create = "timeout"
                                                          THEN "timeout" ELSE "other"], a)]
                      /\ pc' = [pc EXCEPT ![w] = "rc_except"]
                      /\ UNCHANGED <<liveThreads, nextThread, hist>>
                 ELSE /\ create = "ok"
                      /\ cache' = [cache EXCEPT ![k] = r.entry]
                      /\ loc' = [loc EXCEPT ![w] = Fire([@ EXCEPT !.thread_id = r.thread_id], a)]
                      /\ liveThreads' = IF r.created THEN liveThreads \cup {new}
                                        ELSE liveThreads
                      /\ nextThread' = IF r.created THEN nextThread + 1 ELSE nextThread
                      /\ hist' = [hist EXCEPT ![c] = Resolved(@, r.thread_id)]
                      /\ pc' = [pc EXCEPT ![w] = "rc_message"]
    /\ out' = [out EXCEPT ![w].cacheUsed = TRUE]
    /\ UNCHANGED <<redis_up, svc>>
    /\ UNCHANGED <<conversation_lock, job, delivered>>

\* ------------------------------------------------------------ provider
\* on_error of the relay makes one send attempt and swallows its failure
\* (event_handler.py:275-327): n calls, oks of them published.
OnError(o, oks) ==
    IF Len(oks) = 0 THEN o
    ELSE IF Len(oks) = 1 THEN Notify(o, oks[1], FALSE)
    ELSE Notify(Notify(o, oks[1], FALSE), oks[2], FALSE)

\* An exception leaves the inner try block of run_conversation.
Raise(l, kind, msg) == [l EXCEPT !.exc = kind, !.error_msg = msg]

\* NotFoundError was raised for the job's thread.
Stale(h, tid) == [h EXCEPT !.stale = @ \cup {tid}]

\* OpenAIService.create_message (openai_service.py:124-154, main.py:208-212).
\* "active": the active-run check raises, on_error runs in the if and again in
\* the except.  "notfound": the thread does not exist.  "timeout": the alarm
\* lands in the provider call.  Every exception passes through on_error.
CreateMessage(w) ==
    /\ pc[w] = "rc_message"
    /\ LET tid == loc[w].thread_id
           c == job[w].channel
       IN \E res \in {"ok", "active", "notfound", "error", "timeout"},
             s1, s2 \in SendOutcomes(w), a \in AlarmChoices(w) :
          /\ (res = "timeout") => a
          /\ (res = "notfound") => tid \notin liveThreads
          /\ (res = "ok") => tid \in liveThreads
          /\ (res = "active") => tid \in liveThreads
          /\ (res # "active") => s2 = s1
          /\ IF res = "ok"
             THEN /\ pc' = [pc EXCEPT ![w] = "rc_stream"]
                  /\ loc' = [loc EXCEPT ![w] = Fire(@, a)]
                  /\ out' = [out EXCEPT ![w].msgCreated = TRUE]
                  /\ hist' = hist
             ELSE /\ pc' = [pc EXCEPT ![w] = "rc_except"]
                  /\ loc' = [loc EXCEPT ![w] =
                               Fire(Raise(@, CASE res = "notfound" -> "notfound"
                                                [] res = "timeout" -> "timeout"
                                                [] OTHER -> "other",
                                          MsgTimeout), a)]
                  /\ out' = [out EXCEPT ![w] =
                               [OnError(@, IF res = "active" THEN <<s1, s2>> ELSE <<s1>>)
                                  EXCEPT !.nfSeen = @ \/ (res = "notfound")]]
                  /\ hist' = IF res = "notfound"
                             THEN [hist EXCEPT ![c] = Stale(@, tid)] ELSE hist
    /\ UNCHANGED <<redis_up, svc>>
    /\ UNCHANGED <<conversation_lock, job, cache, liveThreads, nextThread, delivered>>

\* stream_conversation opens the run's stream (openai_service.py:203-210).
OpenStream(w) ==
    /\ pc[w] = "rc_stream"
    /\ loc[w].phase = "none"
    /\ loc[w].thread_id \in liveThreads
    /\ loc' = [loc EXCEPT ![w].phase = "active"]
    /\ out' = [out EXCEPT ![w].runStarted = TRUE]
    /\ UNCHANGED <<redis_up, svc>>
    /\ UNCHANGED <<conversation_lock, pc, job, cache, liveThreads, nextThread,
                   delivered, hist>>

Events == {"delta", "requires_action", "message_completed", "run_completed"}

\* CosmoEventHandler.on_event for one event of the run (event_handler.py:62-204).
\* Every transport send of it sits in a try/except Exception, and tool execution
\* in handle_tool_calls in an except TimeoutError (event_handler.py:216-230): an
\* alarm landing there is swallowed and the stream goes on.  After
\* requires_action the events go to the new handler made by handle_tool_calls
\* (event_handler.py:248-270); is_complete and has_started below are the fields
\* of the handler run_conversation polls.
OnEvent(w, ev) ==
    /\ pc[w] = "rc_stream"
    /\ loc[w].nev < MaxEvents
    /\ \/ loc[w].phase = "active"
       \/ loc[w].phase = "msgdone" /\ ev = "run_completed"
    /\ \E ok \in SendOutcomes(w), a \in AlarmChoices(w) :
          /\ (ev # "message_completed") => ok = loc[w].ws
          /\ loc' = [loc EXCEPT ![w] = Fire(
                [@ EXCEPT !.nev = @ + 1,
                          !.has_started = @ \/ ~loc[w].handoff,
                          !.handoff = @ \/ (ev = "requires_action"),
                          !.is_complete = @ \/ (~loc[w].handoff /\
                                ev \in {"message_completed", "run_completed"}),
                          !.ws = @ /\ ev \notin {"message_completed", "run_completed"},
                          !.phase = CASE ev = "message_completed" -> "msgdone"
                                      [] ev = "run_completed" -> "rundone"
                                      [] OTHER -> @], a)]
          /\ out' = [out EXCEPT ![w].completedSent =
                                     @ \/ (ev = "message_completed" /\ ok)]
    /\ UNCHANGED <<redis_up, svc>>
    /\ UNCHANGED <<conversation_lock, pc, job, cache, liveThreads, nextThread,
                   delivered, hist>>

\* stream.until_done() returns (openai_service.py:210, main.py:216-224).
StreamEnd(w) ==
    /\ pc[w] = "rc_stream"
    /\ loc[w].phase # "none"
    /\ pc' = [pc EXCEPT ![w] = "rc_poll"]
    /\ UNCHANGED <<redis_up, svc>>
    /\ UNCHANGED <<conversation_lock, job, loc, out, cache, liveThreads, nextThread,
                   delivered, hist>>

\* The stream raises (openai_service.py:211-214): NotFoundError when the thread
\* is gone, TimeoutError when the alarm lands in the stream read, another
\* exception otherwise.  on_error runs once, and once more for the new handler
\* when the exception comes out of submit_tool_outputs (openai_service.py:238-241).
StreamError(w) ==
    /\ pc[w] = "rc_stream"
    /\ loc[w].phase \in {"none", "active", "msgdone"}
    /\ LET tid == loc[w].thread_id
           c == job[w].channel
       IN \E kind \in {"notfound", "timeout", "other"}, s1, s2 \in SendOutcomes(w) :
          /\ (kind = "notfound") => tid \notin liveThreads
          /\ (kind = "timeout") => loc[w].alarm = "armed"
          /\ (loc[w].phase = "none" /\ tid \notin liveThreads) => kind # "other"
          /\ ~loc[w].handoff => s2 = s1
          /\ loc' = [loc EXCEPT ![w] = Fire(Raise(@, kind, MsgTimeout), kind = "timeout")]
          /\ out' = [out EXCEPT ![w] =
                       [OnError(@, IF loc[w].handoff THEN <<s1, s2>> ELSE <<s1>>)
                          EXCEPT !.nfSeen = @ \/ (kind = "notfound")]]
          /\ hist' = IF kind = "notfound" THEN [hist EXCEPT ![c] = Stale(@, tid)] ELSE hist
    /\ pc' = [pc EXCEPT ![w] = "rc_except"]
    /\ UNCHANGED <<redis_up, svc>>
    /\ UNCHANGED <<conversation_lock, job, cache, liveThreads, nextThread, delivered>>

\* The wait loop (main.py:222-274).  The stream call has returned, so no event
\* arrives any more: the loop ends at once when is_complete is set, and
\* otherwise runs until the no-first-byte watchdog (nothing started), the stall
\* watchdog, or the alarm landing in time.sleep.  A watchdog sends a
\* type=timeout message and raises TimeoutError; when that send itself raises,
\* the ConnectionError leaves the try block instead.
Poll(w) ==
    /\ pc[w] = "rc_poll"
    /\ IF loc[w].is_complete
       THEN /\ loc' = [loc EXCEPT ![w] = Return(@, TRUE, "")]
            /\ out' = [out EXCEPT ![w].observedComplete = TRUE]
            /\ pc' = [pc EXCEPT ![w] = "rc_finally"]
       ELSE /\ \E ok \in SendOutcomes(w), a \in AlarmChoices(w) :
                 IF a
                 THEN /\ ok = loc[w].ws
                      /\ loc' = [loc EXCEPT ![w] = Fire(Raise(@, "timeout", MsgTimeout), a)]
                      /\ out' = out
                 ELSE /\ loc' = [loc EXCEPT ![w] =
                                   Raise(@, IF ok THEN "timeout" ELSE "other",
                                         IF loc[w].has_started THEN MsgInterrupted
                                         ELSE MsgNoResponse)]
                      /\ out' = [out EXCEPT ![w] = Notify(@, ok, TRUE)]
            /\ pc' = [pc EXCEPT ![w] = "rc_except"]
    /\ UNCHANGED <<redis_up, svc>>
    /\ UNCHANGED <<conversation_lock, job, cache, liveThreads, nextThread,
                   delivered, hist>>

\* ------------------------------------------- run_conversation's handlers
\* except NotFoundError (main.py:276-293): delete the mapping, then send the
\* notification and return.  A send that raises leaves the handler: the
\* exception is handled by the except clauses of the enclosing try.
ExceptNotFound(w) ==
    /\ pc[w] = "rc_except"
    /\ loc[w].exc = "notfound"
    /\ LET c == job[w].channel IN
       \E delOk \in BOOLEAN, ok \in SendOutcomes(w), a \in AlarmChoices(w) :
          /\ a => ~ok
          /\ delOk => redis_up
          /\ cache' = [cache EXCEPT ![get_thread_key(c)] = delete_thread(@, delOk)]
          /\ out' = [out EXCEPT ![w] = [Notify(@, ok, FALSE) EXCEPT !.nfDeleted = delOk]]
          /\ IF ok
             THEN /\ loc' = [loc EXCEPT ![w] = Return(@, FALSE, MsgNotFound)]
                  /\ pc' = [pc EXCEPT ![w] = "rc_finally"]
             ELSE /\ loc' = [loc EXCEPT ![w] =
                               Fire(Raise(@, IF a THEN "timeout" ELSE "other",
                                          MsgTimeout), a)]
                  /\ pc' = pc
    /\ UNCHANGED <<redis_up, svc>>
    /\ UNCHANGED <<conversation_lock, job, liveThreads, nextThread, delivered, hist>>

\* except TimeoutError (main.py:295-311) and except Exception (main.py:312-328):
\* send the notification and return; a send that raises leaves
\* run_conversation through the finally blocks.
ExceptOuter(w) ==
    /\ pc[w] = "rc_except"
    /\ loc[w].exc \in {"timeout", "other"}
    /\ \E ok \in SendOutcomes(w), a \in AlarmChoices(w) :
          /\ a => ~ok
          /\ out' = [out EXCEPT ![w] = Notify(@, ok, FALSE)]
          /\ loc' = [loc EXCEPT ![w] =
                       IF ok
                       THEN Return(@, FALSE, IF loc[w].exc = "timeout"
                                             THEN loc[w].error_msg ELSE MsgConversation)
                       ELSE Fire(Raise(@, "escaped", MsgProcessing), a)]
    /\ pc' = [pc EXCEPT ![w] = "rc_finally"]
    /\ UNCHANGED <<redis_up, svc>>
    /\ UNCHANGED <<conversation_lock, job, cache, liveThreads, nextThread,
                   delivered, hist>>

\* A release that leaves the lock as it is.
release_noop(locked) == locked

\* threading.Lock.release (main.py:337).
release(locked) == FALSE

\* The finally blocks (main.py:329-337): disconnect and close the loop, release
\* the lock.  An alarm landing in disconnect is swallowed inside it
\* (websocket_service.py:263-265) or leaves the finally block as an exception.
\* process_message then returns run_conversation's result, or
\* (False, True, msg) for an exception (main.py:386-405).
Finally(w) ==
    /\ pc[w] = "rc_finally"
    /\ \E a \in AlarmChoices(w), esc \in BOOLEAN :
          /\ esc => a
          /\ LET raised == esc \/ loc[w].exc = "escaped" IN
             /\ loc' = [loc EXCEPT ![w] = Fire(
                   [@ EXCEPT !.ws = FALSE,
                             !.exc = "none",
                             !.success = @ /\ ~raised,
                             !.should_requeue = TRUE,
                             !.error_msg = IF raised THEN MsgProcessing ELSE @], a)]
             /\ pc' = [pc EXCEPT ![w] = IF loc[w].success /\ ~raised
                                        THEN "cb_ok" ELSE "cb_failed"]
    /\ conversation_lock' = release(conversation_lock)
    /\ UNCHANGED <<redis_up, svc>>
    /\ UNCHANGED <<job, out, cache, liveThreads, nextThread, delivered, hist>>

\* ---------------------------------------------------------- environment
\* The provider deletes a thread.  The worker can tell only when it probes a
\* cached thread or uses the thread of the running job, so the deletion is
\* placed between two deliveries or while a job is about to use the thread.
ProviderDelete(t) ==
    /\ t \in liveThreads
    /\ \/ /\ \A w \in Workers : pc[w] = "idle"
          /\ \E c \in Channels : cache[get_thread_key(c)].thread = t \/ hist[c].last = t
       \/ \E w \in Workers : pc[w] \in {"rc_message", "rc_stream"} /\ loc[w].thread_id = t
    /\ liveThreads' = liveThreads \ {t}
    /\ hist' = [c \in AllChannels |->
                  IF hist[c].last = t THEN [hist[c] EXCEPT !.delSince = TRUE]
                  ELSE hist[c]]
    /\ UNCHANGED <<redis_up, svc>>
    /\ UNCHANGED <<conversation_lock, pc, job, loc, out, cache, nextThread, delivered>>

\* Time passes between two deliveries: a TTL that was set is no longer the
\* full expiry.
TimePasses(c) ==
    /\ \A w \in Workers : pc[w] = "idle"
    /\ LET k == get_thread_key(c) IN
       /\ cache[k].ttlThread = "fresh" \/ cache[k].ttlMeta = "fresh"
       /\ cache' = [cache EXCEPT ![k].ttlThread = IF @ = "fresh" THEN "aged" ELSE @,
                                 ![k].ttlMeta = IF @ = "fresh" THEN "aged" ELSE @]
    /\ UNCHANGED <<redis_up, svc>>
    /\ UNCHANGED <<conversation_lock, pc, job, loc, out, liveThreads, nextThread,
                   delivered, hist>>

\* ------------------------------------------------- concurrent callers
\* The channels a caller's job can name.  Channel names are interchangeable,
\* so the first caller's channel is fixed and the other's is either.
ChannelsOf(w) == IF w = "w1" THEN Channels ELSE AllChannels

\* A thread other than the consumer calls process_message with a valid job
\* (main.py:340-391): no callback around it, so no alarm is armed.
Call(w) ==
    /\ pc[w] = "idle"
    /\ \E c \in ChannelsOf(w) :
          job' = [job EXCEPT ![w] = [body |-> "object", message |-> "hi",
                                     channel |-> c, message_id |-> "m1",
                                     reply_to |-> FALSE]]
    /\ loc' = [loc EXCEPT ![w] = NoLoc]
    /\ out' = [out EXCEPT ![w] = [NoOut EXCEPT !.rcCalled = TRUE,
                                               !.heldAtCall = conversation_lock]]
    /\ pc' = [pc EXCEPT ![w] = "rc_assistant"]
    /\ UNCHANGED <<redis_up, svc>>
    /\ UNCHANGED <<conversation_lock, cache, liveThreads, nextThread, delivered, hist>>

\* process_message has returned to that caller.
CallEnd(w) ==
    /\ pc[w] \in {"cb_ok", "cb_failed"}
    /\ pc' = [pc EXCEPT ![w] = "returned"]
    /\ job' = [job EXCEPT ![w] = NoJob]
    /\ loc' = [loc EXCEPT ![w] = NoLoc]
    /\ out' = [out EXCEPT ![w] = NoOut]
    /\ UNCHANGED <<redis_up, svc>>
    /\ UNCHANGED <<conversation_lock, cache, liveThreads, nextThread, delivered, hist>>

\* process_message -> run_conversation, whoever the caller is.
Pipeline(w) ==
    \/ GetAssistant(w)
    \/ AcquireLock(w)
    \/ Connect(w)
    \/ Subscribe(w)
    \/ Resolve(w)
    \/ CreateMessage(w)
    \/ OpenStream(w)
    \/ \E ev \in Events : OnEvent(w, ev)
    \/ StreamEnd(w)
    \/ StreamError(w)
    \/ Poll(w)
    \/ ExceptOuter(w)
    \/ Finally(w)

\* The consumer: pika's BlockingConnection runs callback for one delivery at a
\* time on the main thread (main.py:1217-1229).
Consumer == "w1"

Callback(w) ==
    \/ Deliver(w)
    \/ CallbackParseError(w)
    \/ CallbackNotObject(w)
    \/ ProcessMessage(w)
    \/ CallbackAck(w)
    \/ CallbackFail(w)
    \/ CallbackTimeout(w)
    \/ CallbackReturn(w)

Next ==
    \/ Callback(Consumer)
    \/ Pipeline(Consumer)
    \/ ExceptNotFound(Consumer)
    \/ \E t \in liveThreads : ProviderDelete(t)
    \/ \E c \in Channels : TimePasses(c)

Spec == Init /\ [][Next]_vars

\* Several threads of one process call process_message concurrently.
NextThreads ==
    \/ \E w \in Workers : Call(w) \/ Pipeline(w) \/ CallEnd(w)

SpecThreads == Init /\ [][NextThreads]_vars

\* The relay and the transport do not use the cache: their specifications
\* start from the one initial state with the cache client connected.
InitService ==
    /\ Init
    /\ redis_up = TRUE

\* ============================================================ the relay
\* CosmoEventHandler on its own: the events of one run arrive at the handler
\* chain, the sends go to a transport that can fail at every send.  The
\* status messages (started, processing, responding), which carry no text, are
\* not recorded.
Long == [n \in 1..min_chunk_size |-> "b"]
DeltaTexts == {<<"a">>, Long}

ToolBehaviours == {"returns", "bad_arguments", "unknown_tool", "raises",
                   "timeout_error", "hangs"}
ToolIds == <<"call_1", "call_2", "call_3", "call_4">>
Fallback == "The operation took too long to complete. Please try again."

\* A flush condition that looks at the size of the buffer only.
should_send_size(h, current_time) ==
    Len(h.accumulated_content) >= min_chunk_size

\* A flush condition that ignores both thresholds.
should_send_always(h, current_time) == h.accumulated_content # <<>>

\* The flush condition of the delta branch (event_handler.py:141-146).
should_send(h, current_time) ==
    /\ \/ Len(h.accumulated_content) >= min_chunk_size
       \/ (current_time - h.last_ws_send_time) >= min_send_interval
    /\ h.accumulated_content # <<>>

\* A flush that carries the unsent buffer only.
flush_message_chunk(h) == h.accumulated_content

\* The text an in_progress flush carries (event_handler.py:147-148).
flush_message(h) == h.message_content

\* thread.message.delta with text content (event_handler.py:134-165): append to
\* message_content and to the buffer; when the flush condition holds, send the
\* whole message_content with status=in_progress, and only when the send
\* succeeded note the time and clear the buffer (every exception of the send is
\* swallowed, event_handler.py:164-165).  The record of a sent message also
\* notes which handler instance sent it (the number of handoffs before it),
\* which is not a field of the message.  A delta can still arrive after a
\* completion event; the transport is disconnected by then
\* (event_handler.py:190-194) and every send fails (websocket_service.py:153-155).
RelayDelta(content) ==
    /\ relay.phase \in {"streaming", "done"}
    /\ Len(relay.deltas) < MaxDeltas
    /\ LET h1 == [relay.h EXCEPT !.message_content = @ \o content,
                                 !.accumulated_content = @ \o content]
           current_time == relay.clock
       IN \E ok \in BOOLEAN :
             /\ ok => relay.connected
             /\ relay' = [relay EXCEPT
                   !.deltas = Append(@, content),
                   !.attempt = IF ~should_send(h1, current_time) THEN "none"
                               ELSE IF ok THEN "sent" ELSE "failed",
                   !.h = IF should_send(h1, current_time) /\ ok
                         THEN [h1 EXCEPT !.last_ws_send_time = current_time,
                                         !.accumulated_content = <<>>]
                         ELSE h1,
                   !.published = IF should_send(h1, current_time) /\ ok
                                 THEN Append(@, [status |-> "in_progress",
                                                 message |-> flush_message(h1),
                                                 timestamp |-> current_time,
                                                 handler |-> relay.rounds])
                                 ELSE @]
             /\ (~should_send(h1, current_time)) => ok
    /\ UNCHANGED <<core, sock, rest>>

\* Time passes between two events.
RelayTick ==
    /\ relay.phase = "streaming"
    /\ relay.clock < StartTime + MaxTicks
    /\ relay' = [relay EXCEPT !.clock = @ + 1, !.attempt = "none"]
    /\ UNCHANGED <<core, sock, rest>>

\* A final message that carries only the unsent buffer.
final_message_buffer(h) ==
    [status |-> "completed", final_message |-> TRUE,
     message |-> h.accumulated_content]

\* The final message of the message.completed branch
\* (event_handler.py:173-181).
final_message(h) ==
    [status |-> "completed", final_message |-> TRUE,
     message |-> h.message_content]

\* thread.message.completed, the send (event_handler.py:169-187): one send
\* attempt of the final message, whose failure is swallowed.
RelayMessageCompleted ==
    /\ relay.phase = "streaming"
    /\ \E ok \in BOOLEAN :
          relay' = [relay EXCEPT
             !.phase = "completing",
             !.attempt = "none",
             !.finals = Append(@, final_message(relay.h)),
             !.completed_at = Len(relay.deltas),
             !.published = IF ok THEN Append(@, [status |-> "completed",
                                                 message |-> final_message(relay.h).message,
                                                 timestamp |-> relay.clock,
                                                 handler |-> relay.rounds])
                           ELSE @]
    /\ UNCHANGED <<core, sock, rest>>

\* thread.message.completed, after the send (event_handler.py:188-194):
\* is_complete of this handler becomes true and the transport is disconnected.
RelayMarkComplete ==
    /\ relay.phase = "completing"
    /\ relay' = [relay EXCEPT
          !.h.is_complete = TRUE,
          !.polled = IF relay.rounds = 0 THEN TRUE ELSE @,
          !.connected = FALSE,
          !.phase = "done"]
    /\ UNCHANGED <<core, sock, rest>>

\* A completion that flips the flag.
run_completed_flip(h) == [h EXCEPT !.is_complete = ~@]

\* What thread.run.completed does to the handler (event_handler.py:196-198).
run_completed(h) == [h EXCEPT !.is_complete = TRUE]

\* thread.run.completed (event_handler.py:196-204), as the last event of a run
\* or once more: is_complete of this handler becomes true, the transport is
\* disconnected, nothing is sent.
RelayRunCompleted ==
    /\ relay.phase \in {"streaming", "done"}
    /\ relay.run_completed < MaxRunCompleted
    /\ relay' = [relay EXCEPT
          !.h = run_completed(@),
          !.polled = IF relay.rounds = 0 THEN run_completed(relay.h).is_complete
                     ELSE @,
          !.connected = FALSE,
          !.phase = "done",
          !.attempt = "none",
          !.run_completed = @ + 1]
    /\ UNCHANGED <<core, sock, rest>>

\* The tool_call_ids of a list of tool calls or of tool outputs.
CallIds(calls) == [j \in 1..Len(calls) |-> calls[j].id]
OutputIds(outputs) == [j \in 1..Len(outputs) |-> outputs[j].tool_call_id]

\* thread.run.requires_action (event_handler.py:87-111, 206-209): the event
\* names the tool calls; handle_tool_calls starts with no outputs.
RelayRequiresAction ==
    /\ relay.phase = "streaming"
    /\ relay.rounds < MaxRounds
    /\ \E n \in 1..MaxTools :
          LET calls == [j \in 1..n |-> [id |-> ToolIds[j]]]
          IN relay' = [relay EXCEPT !.phase = "tools", !.calls = calls, !.i = 1,
                                    !.attempt = "none",
                                    !.tool_outputs = <<>>,
                                    !.requested = CallIds(calls)]
    /\ UNCHANGED <<core, sock, rest>>

\* What the loop body leaves out for a tool that raises.
run_tool_drop(tool_outputs, tool, behaviour) ==
    IF behaviour = "raises" THEN tool_outputs
    ELSE Append(tool_outputs, [tool_call_id |-> tool.id, output |-> "result"])

\* One pass of the loop of handle_tool_calls for a tool that comes back
\* (event_handler.py:209-246): arguments that do not parse leave through the
\* outer except, an unknown name and a raising tool through except Exception, a
\* TimeoutError through except TimeoutError; every path appends one output with
\* the tool's id.
run_tool(tool_outputs, tool, behaviour) ==
    Append(tool_outputs,
           [tool_call_id |-> tool.id,
            output |-> CASE behaviour = "returns" -> "result"
                         [] behaviour = "timeout_error" -> Fallback
                         [] OTHER -> "str(e)"])

\* The next tool call, whatever the tool does.  A tool that never returns
\* leaves the thread blocked in loop.run_until_complete
\* (event_handler.py:219-221): registry.execute_function awaits the tool with
\* no bound of its own (registry.py:51-55).
RelayToolCall ==
    /\ relay.phase = "tools"
    /\ relay.i <= Len(relay.calls)
    /\ \E behaviour \in ToolBehaviours :
          IF behaviour = "hangs"
          THEN relay' = [relay EXCEPT !.phase = "tool_wait"]
          ELSE relay' = [relay EXCEPT
                  !.tool_outputs = run_tool(@, relay.calls[relay.i], behaviour),
                  !.i = @ + 1]
    /\ UNCHANGED <<core, sock, rest>>

\* The 90 s alarm lands while the thread is blocked in the tool: the
\* TimeoutError is caught by except TimeoutError (event_handler.py:223-227) and
\* the loop goes on with the fallback output.
RelayToolAlarm ==
    /\ relay.phase = "tool_wait"
    /\ relay.alarm = "armed"
    /\ relay' = [relay EXCEPT
          !.alarm = "fired", !.phase = "tools",
          !.tool_outputs = run_tool(@, relay.calls[relay.i], "timeout_error"),
          !.i = @ + 1]
    /\ UNCHANGED <<core, sock, rest>>

\* A handler that starts with no text.
new_handler_empty(h) == Handler

\* The new handler of handle_tool_calls (event_handler.py:252-263): a fresh
\* CosmoEventHandler with message_content copied over.
new_handler(h) == [Handler EXCEPT !.message_content = h.message_content]

\* The loop is over: submit_tool_outputs with the new handler, which gets the
\* rest of the run's events (event_handler.py:248-273).  The provider refusing
\* the submission raises out of on_event (openai_service.py:224-241).
\* requested and submitted note the ids the last requires_action event named
\* and the ids of the outputs last handed to submit_tool_outputs.
RelaySubmit ==
    /\ relay.phase = "tools"
    /\ relay.i > Len(relay.calls)
    /\ \E ok \in BOOLEAN :
          relay' = [relay EXCEPT
             !.h = new_handler(@),
             !.phase = IF ok THEN "streaming" ELSE "failed",
             !.rounds = @ + 1,
             !.calls = <<>>, !.i = 1, !.tool_outputs = <<>>,
             !.submitted = OutputIds(relay.tool_outputs)]
    /\ UNCHANGED <<core, sock, rest>>

NextRelay ==
    \/ \E content \in DeltaTexts : RelayDelta(content)
    \/ RelayTick
    \/ RelayMessageCompleted
    \/ RelayMarkComplete
    \/ RelayRunCompleted
    \/ RelayRequiresAction
    \/ RelayToolCall
    \/ RelayToolAlarm
    \/ RelaySubmit

SpecRelay == InitService /\ [][NextRelay]_vars

\* ======================================================= the transport
\* WebSocketService on its own: one caller that makes one call after the other,
\* the liveness task that runs whenever the loop does, and a connection that
\* can drop at any moment.
Outcomes == [1..max_retries -> BOOLEAN]

\* A connect() that gives up after the first attempt.
connect_once(outcomes) ==
    IF outcomes[1]
    THEN [websocket |-> "open", raised |-> FALSE, attempts |-> 1, sleeps |-> 0]
    ELSE [websocket |-> None, raised |-> TRUE, attempts |-> 1, sleeps |-> 0]

\* The loop of connect() from the given value of retries
\* (websocket_service.py:31-58); outcomes[k] says whether the k-th
\* websockets.connect succeeds.
RECURSIVE connect_from(_, _)
connect_from(retries, outcomes) ==
    IF retries < max_retries
    THEN IF outcomes[retries + 1]
         THEN [websocket |-> "open", raised |-> FALSE,
               attempts |-> retries + 1, sleeps |-> retries]
         ELSE IF retries + 1 = max_retries
              THEN [websocket |-> None, raised |-> TRUE,
                    attempts |-> retries + 1, sleeps |-> retries]
              ELSE connect_from(retries + 1, outcomes)
    ELSE [websocket |-> None, raised |-> FALSE,
          attempts |-> retries, sleeps |-> retries]

\* connect() (websocket_service.py:29-58).
connect(outcomes) == connect_from(0, outcomes)

\* The service after a connect(): a new connection has no subscription on the
\* other end; the ping task is started when there is a loop and no task yet
\* (websocket_service.py:44-45).
Connected(s, outcomes) ==
    LET r == connect(outcomes)
    IN [s EXCEPT !.websocket = r.websocket,
                 !.server = {},
                 !.ping_task = IF ~r.raised /\ s.loop THEN TRUE ELSE @,
                 !.last_connect = [outcomes |-> outcomes, result |-> r],
                 !.healed = FALSE]

\* subscribe(channel) (websocket_service.py:97-127): ValueError without a
\* connection; otherwise one subscribe frame, and the channel joins
\* subscribed_channels when the send succeeded.
subscribe(s, channel, ok) ==
    IF s.websocket = None \/ ~ok
    THEN [sock |-> s, raised |-> TRUE]
    ELSE [sock |-> [s EXCEPT !.server = @ \cup {channel},
                             !.subscribed_channels = @ \cup {channel}],
          raised |-> FALSE]

\* connect() followed by subscribe(channel) inside one try block
\* (websocket_service.py:159-162, 202-204): subscribe is not reached when
\* connect raises.
Reconnected(s, channel, outcomes, ok) ==
    LET s1 == Connected(s, outcomes)
    IN IF s1.last_connect.result.raised
       THEN [sock |-> s1, raised |-> TRUE]
       ELSE subscribe(s1, channel, ok)

\* The caller is between two calls.
Idle == sock.call.pc # "loop"

\* set_loop (websocket_service.py:25-27).
SockSetLoop ==
    /\ Idle
    /\ ~sock.loop
    /\ sock' = [sock EXCEPT !.loop = TRUE]
    /\ UNCHANGED <<core, relay, rest>>

\* The caller calls connect() on a service without a connection
\* (main.py:131-135).
SockConnect ==
    /\ Idle
    /\ sock.websocket = None
    /\ \E outcomes \in Outcomes : sock' = Connected(sock, outcomes)
    /\ UNCHANGED <<core, relay, rest>>

\* The caller calls subscribe(channel) (main.py:141-142).
SockSubscribe(channel) ==
    /\ Idle
    /\ \E ok \in BOOLEAN :
          /\ ok => sock.websocket = "open"
          /\ sock' = subscribe(sock, channel, ok).sock
    /\ UNCHANGED <<core, relay, rest>>

\* The connection drops: the object stays, .closed becomes true.
SockDrop ==
    /\ sock.websocket = "open"
    /\ sock' = [sock EXCEPT !.websocket = "closed", !.server = {},
                            !.healed = FALSE]
    /\ UNCHANGED <<core, relay, rest>>

\* A check that lets every channel through.
is_subscribed_any(channel, subscribed_channels) == TRUE

\* The check of websocket_service.py:167.
is_subscribed(channel, subscribed_channels) == channel \in subscribed_channels

\* send_message up to its loop (websocket_service.py:151-172): ConnectionError
\* without a connection; on a closed connection connect() and
\* subscribe(channel), whose failure becomes a ConnectionError; ValueError when
\* the channel is not in subscribed_channels.
SockSendMessage(channel) ==
    /\ Idle
    /\ LET start == [NoCall EXCEPT !.channel = channel,
                                   !.pre = sock.websocket,
                                   !.subs_before = sock.subscribed_channels]
       IN \/ /\ sock.websocket = None
             /\ sock' = [sock EXCEPT !.call = [start EXCEPT
                                        !.pc = "raised",
                                        !.error = "ConnectionError"]]
          \/ /\ sock.websocket = "closed"
             /\ \E outcomes \in Outcomes, ok \in BOOLEAN :
                   LET r == Reconnected(sock, channel, outcomes, ok)
                   IN /\ ok => ~r.raised
                      /\ sock' = [r.sock EXCEPT !.call =
                            IF r.raised
                            THEN [start EXCEPT !.pc = "raised",
                                               !.initial = "failed",
                                               !.error = "ConnectionError"]
                            ELSE [start EXCEPT !.pc = "loop",
                                               !.initial = "ok"]]
          \/ /\ sock.websocket = "open"
             /\ sock' = [sock EXCEPT !.call =
                   IF is_subscribed(channel, sock.subscribed_channels)
                   THEN [start EXCEPT !.pc = "loop"]
                   ELSE [start EXCEPT !.pc = "raised", !.error = "ValueError"]]
    /\ UNCHANGED <<core, relay, rest>>

\* What one websocket.send can do: on an open connection it succeeds, finds
\* the connection closed or fails otherwise (the 5 s timeout); on a closed one
\* it raises ConnectionClosed; with websocket = None the attribute lookup fails.
WireOutcomes(websocket) ==
    CASE websocket = "open" -> {"sent", "closed", "error"}
      [] websocket = "closed" -> {"closed"}
      [] OTHER -> {"error"}

\* The end of a failed pass of the loop (websocket_service.py:211-218, 173).
after_failure(retries) == IF retries < max_retries THEN "loop" ELSE "raised"

\* The call after a failed pass of the loop.
Failed(call) ==
    [call EXCEPT !.retries = @ + 1,
                 !.pc = after_failure(call.retries + 1),
                 !.error = IF after_failure(call.retries + 1) = "raised"
                           THEN "ConnectionError" ELSE @]

\* One pass of the loop of send_message (websocket_service.py:173-214): return
\* on success; on ConnectionClosed try connect() and subscribe(channel) and
\* swallow their failure; on any other error just count.  blind_retries counts
\* the passes that go on to a retry although the reconnection or the
\* resubscription before it failed.
SockSendAttempt ==
    /\ sock.call.pc = "loop"
    /\ \E outcome \in WireOutcomes(sock.websocket) :
          LET c == sock.call.channel
              tried == [sock EXCEPT !.call.attempts = @ + 1]
          IN \/ /\ outcome = "sent"
                /\ sock' = [tried EXCEPT
                      !.call.pc = "returned",
                      !.call.frames = Append(@, [channel |-> c,
                                                 subscribed |-> c \in sock.server])]
             \/ /\ outcome = "closed"
                /\ \E outcomes \in Outcomes, ok \in BOOLEAN :
                      LET dropped == [tried EXCEPT !.websocket = "closed",
                                                   !.server = {},
                                                   !.healed = FALSE]
                          r == Reconnected(dropped, c, outcomes, ok)
                      IN /\ ok => ~r.raised
                         /\ sock' = [r.sock EXCEPT !.call =
                               [Failed(tried.call) EXCEPT
                                   !.closed_failures = @ + 1,
                                   !.blind_retries =
                                      IF r.raised /\ Failed(tried.call).pc = "loop"
                                      THEN @ + 1 ELSE @]]
             \/ /\ outcome = "error"
                /\ sock' = [tried EXCEPT !.call = Failed(tried.call)]
    /\ UNCHANGED <<core, relay, rest>>

\* One pass of _keep_alive (websocket_service.py:62-95).  Without a connection
\* it calls connect() and nothing else; on a closed connection it calls
\* connect() and subscribe for every channel of subscribed_channels, swallowing
\* each failure; on an open one it pings, and a failed ping closes and forgets
\* the connection.  A connect() that raises ends in the outer except.  healed
\* says that this pass brought a connection back and no subscribe of it failed.
SockKeepAlive ==
    /\ sock.ping_task
    /\ \/ /\ sock.websocket = None
          /\ \E outcomes \in Outcomes :
                LET s1 == Connected(sock, outcomes)
                IN sock' = [s1 EXCEPT !.healed = s1.websocket = "open"]
       \/ /\ sock.websocket = "closed"
          /\ \E outcomes \in Outcomes, done \in SUBSET sock.subscribed_channels :
                LET s1 == Connected(sock, outcomes)
                IN /\ s1.websocket = None => done = {}
                   /\ sock' = [s1 EXCEPT
                         !.server = done,
                         !.healed = /\ s1.websocket = "open"
                                    /\ done = sock.subscribed_channels]
       \/ /\ sock.websocket = "open"
          /\ \E pong \in BOOLEAN :
                sock' = IF pong THEN sock
                        ELSE [sock EXCEPT !.websocket = None, !.server = {},
                                          !.healed = FALSE]
    /\ UNCHANGED <<core, relay, rest>>

\* disconnect() (websocket_service.py:234-265): cancel the ping task, forget
\* the channels and the connection.
SockDisconnect ==
    /\ Idle
    /\ sock.websocket # None \/ sock.ping_task
    /\ sock' = [sock EXCEPT
          !.ping_task = FALSE,
          !.websocket = None,
          !.server = {},
          !.subscribed_channels = IF sock.websocket # None THEN {} ELSE @,
          !.healed = FALSE]
    /\ UNCHANGED <<core, relay, rest>>

NextSocket ==
    \/ SockSetLoop
    \/ SockConnect
    \/ \E channel \in AllChannels : SockSubscribe(channel)
    \/ \E channel \in AllChannels : SockSendMessage(channel)
    \/ SockSendAttempt
    \/ SockKeepAlive
    \/ SockDrop
    \/ SockDisconnect

SpecSocket == InitService /\ [][NextSocket]_vars

\* ======================================================== the registry
\* The one AssistantToolRegistry of the process (registry.py:8-20, 63).  _tools
\* is a dict keyed by tool name, kept here as the sequence of its values in
\* insertion order; two tool objects can carry the same name.
ToolNames == {"get_weather", "get_user_audit"}
ToolObjects == {[name |-> n, id |-> k] : n \in ToolNames, k \in 1..2}

\* A registration that keeps the tool already registered under the name.
register_keep(tools, tool) ==
    IF \E j \in 1..Len(tools) : tools[j].name = tool.name
    THEN tools
    ELSE Append(tools, tool)

\* register (registry.py:26-31): self._tools[tool.name] = tool.
register(tools, tool) ==
    IF \E j \in 1..Len(tools) : tools[j].name = tool.name
    THEN [j \in 1..Len(tools) |->
             IF tools[j].name = tool.name THEN tool ELSE tools[j]]
    ELSE Append(tools, tool)

\* unregister (registry.py:33-39): del self._tools[tool_name] when present.
unregister(tools, tool_name) ==
    LET Other(t) == t.name # tool_name
    IN SelectSeq(tools, Other)

\* get_function_definitions (registry.py:47-49): one definition per value of
\* the dict; a tool's definition carries the tool's name.
get_function_definitions(tools) ==
    [j \in 1..Len(tools) |-> [name |-> tools[j].name, of |-> tools[j].id]]

RegistryRegister(tool) ==
    /\ Len(registry.calls) < MaxCalls
    /\ registry' = [tools |-> register(registry.tools, tool),
                    calls |-> Append(registry.calls,
                                     [op |-> "register", name |-> tool.name,
                                      id |-> tool.id])]
    /\ UNCHANGED <<core, sock, relay, provider, procs>>

RegistryUnregister(tool_name) ==
    /\ Len(registry.calls) < MaxCalls
    /\ registry' = [tools |-> unregister(registry.tools, tool_name),
                    calls |-> Append(registry.calls,
                                     [op |-> "unregister", name |-> tool_name,
                                      id |-> 0])]
    /\ UNCHANGED <<core, sock, relay, provider, procs>>

NextRegistry ==
    \/ \E tool \in ToolObjects : RegistryRegister(tool)
    \/ \E tool_name \in ToolNames : RegistryUnregister(tool_name)

SpecRegistry == InitService /\ [][NextRegistry]_vars

\* ============================================== messages on a thread
\* Two worker processes serve the same channel, so their create_message and
\* stream_conversation calls meet on one provider thread.  The provider lets
\* a thread have one active run at a time; every call to it can raise.

\* OpenAIService.check_active_runs (openai_service.py:106-122): whether a run
\* of the thread is queued, in_progress or requires_action; False when the
\* listing raises.
check_active_runs(status, listOk) == listOk /\ status \in ActiveStatuses

\* create_message up to the check (openai_service.py:138-146): with an active
\* run reported it raises without calling the provider.
CheckActiveRuns(w) ==
    /\ provider.call[w] = "idle"
    /\ provider.calls < MaxMessages
    /\ \E listOk \in BOOLEAN :
          provider' = [provider EXCEPT
             !.call[w] = IF check_active_runs(provider.status, listOk)
                         THEN "raised" ELSE "checked",
             !.calls = @ + 1]
    /\ UNCHANGED <<core, sock, relay, registry, procs>>

\* client.beta.threads.messages.create (openai_service.py:148-150), and the
\* except clause when it raises (openai_service.py:151-154).
MessagesCreate(w) ==
    /\ provider.call[w] = "checked"
    /\ \E ok \in BOOLEAN :
          provider' = [provider EXCEPT
             !.call[w] = IF ok THEN "created" ELSE "raised",
             !.created = Append(@, provider.status)]
    /\ UNCHANGED <<core, sock, relay, registry, procs>>

\* stream_conversation starts a run on the thread (openai_service.py:203-210),
\* or raises (openai_service.py:211-214).
RunsStream(w) ==
    /\ provider.call[w] = "created"
    /\ \E ok \in BOOLEAN :
          /\ ok => provider.status \notin ActiveStatuses
          /\ provider' = [provider EXCEPT
                !.call[w] = IF ok THEN "streaming" ELSE "raised",
                !.status = IF ok THEN "queued" ELSE @]
    /\ UNCHANGED <<core, sock, relay, registry, procs>>

\* The provider works on the run: queued, in_progress, and from there
\* requires_action (until the tool outputs arrive) or completed.
RunAdvances ==
    /\ provider.status \in ActiveStatuses
    /\ \E next \in {"in_progress", "requires_action", "completed"} :
          /\ next # provider.status
          /\ (provider.status = "queued") => next = "in_progress"
          /\ provider' = [provider EXCEPT !.status = next]
    /\ UNCHANGED <<core, sock, relay, registry, procs>>

\* The worker is done with the job: the stream ended or was left (the run goes
\* on at the provider), or the exception reached run_conversation
\* (main.py:208-220, 276-328).
CallerReturns(w) ==
    /\ provider.call[w] \in {"streaming", "raised"}
    /\ provider' = [provider EXCEPT !.call[w] = "idle"]
    /\ UNCHANGED <<core, sock, relay, registry, procs>>

NextProvider ==
    \/ \E w \in Workers : CheckActiveRuns(w) \/ MessagesCreate(w) \/ RunsStream(w)
                            \/ CallerReturns(w)
    \/ RunAdvances

SpecProvider == InitService /\ [][NextProvider]_vars

\* ============================================ resolution across processes
\* Two worker processes (two consumers of the queue, each with its own
\* conversation_lock) resolve the session of the same channel.  The cache
\* and the provider are shared; each call of the get-or-create block
\* (main.py:155-196) is one step, and here every call is answered.
SharedChannel == "c1"

\* thread_id = redis_service.get_thread_id(channel) (main.py:157).
ProcGetThreadId(p) ==
    /\ procs[p].pc = "get"
    /\ LET k == get_thread_key(SharedChannel)
           g == get_thread_id(cache[k], SharedChannel, redis_up, TRUE)
       IN /\ cache' = [cache EXCEPT ![k] = g.entry]
          /\ procs' = [procs EXCEPT ![p].thread_id = g.thread_id,
                                    ![p].missed = (g.thread_id = None),
                                    ![p].pc = IF g.thread_id = None
                                              THEN "create" ELSE "probe"]
    /\ UNCHANGED <<liveThreads, nextThread>>
    /\ UNCHANGED <<conversation_lock, pc, job, loc, out, delivered, hist, redis_up>>
    /\ UNCHANGED <<sock, relay, registry, provider>>

\* openai_service.check_thread_exists(thread_id) (main.py:181-182).
ProcProbe(p) ==
    /\ procs[p].pc = "probe"
    /\ procs' = [procs EXCEPT ![p].pc =
                    IF NeedsThread(procs[p].thread_id, liveThreads, TRUE)
                    THEN "create" ELSE "meta_get"]
    /\ UNCHANGED <<cache, liveThreads, nextThread>>
    /\ UNCHANGED <<conversation_lock, pc, job, loc, out, delivered, hist, redis_up>>
    /\ UNCHANGED <<sock, relay, registry, provider>>

\* thread = openai_service.create_thread(); thread_id = thread.id
\* (main.py:164-165, 186-187).
ProcCreateThread(p) ==
    /\ procs[p].pc = "create"
    /\ nextThread <= MaxThreads
    /\ procs' = [procs EXCEPT ![p].thread_id = ThreadNames[nextThread],
                              ![p].pc = "set"]
    /\ liveThreads' = liveThreads \cup {ThreadNames[nextThread]}
    /\ nextThread' = nextThread + 1
    /\ UNCHANGED cache
    /\ UNCHANGED <<conversation_lock, pc, job, loc, out, delivered, hist, redis_up>>
    /\ UNCHANGED <<sock, relay, registry, provider>>

\* redis_service.set_thread_id(channel, thread_id) (main.py:167, 189).
ProcSetThreadId(p) ==
    /\ procs[p].pc = "set"
    /\ cache' = [cache EXCEPT ![get_thread_key(SharedChannel)] =
                    set_thread_id(@, procs[p].thread_id, TRUE)]
    /\ procs' = [procs EXCEPT ![p].pc = IF procs[p].missed THEN "meta_init"
                                                           ELSE "meta_get"]
    /\ UNCHANGED <<liveThreads, nextThread>>
    /\ UNCHANGED <<conversation_lock, pc, job, loc, out, delivered, hist, redis_up>>
    /\ UNCHANGED <<sock, relay, registry, provider>>

\* The metadata of a new session, message_count 0 (main.py:169-176).
ProcInitMetadata(p) ==
    /\ procs[p].pc = "meta_init"
    /\ cache' = [cache EXCEPT ![get_thread_key(SharedChannel)] =
                    set_thread_metadata(@, 0, TRUE)]
    /\ procs' = [procs EXCEPT ![p].pc = "meta_get"]
    /\ UNCHANGED <<liveThreads, nextThread>>
    /\ UNCHANGED <<conversation_lock, pc, job, loc, out, delivered, hist, redis_up>>
    /\ UNCHANGED <<sock, relay, registry, provider>>

\* metadata = redis_service.get_thread_metadata(channel) and the increment of
\* the local copy (main.py:192-194).
ProcGetMetadata(p) ==
    /\ procs[p].pc = "meta_get"
    /\ LET k == get_thread_key(SharedChannel)
           m == get_thread_metadata(cache[k], TRUE)
       IN /\ cache' = [cache EXCEPT ![k] = m.entry]
          /\ procs' = [procs EXCEPT ![p].message_count = m.message_count + 1,
                                    ![p].pc = "meta_set"]
    /\ UNCHANGED <<liveThreads, nextThread>>
    /\ UNCHANGED <<conversation_lock, pc, job, loc, out, delivered, hist, redis_up>>
    /\ UNCHANGED <<sock, relay, registry, provider>>

\* redis_service.set_thread_metadata(channel, metadata) (main.py:196); the job
\* goes on to create_message with its thread_id (main.py:208-212).
ProcSetMetadata(p) ==
    /\ procs[p].pc = "meta_set"
    /\ cache' = [cache EXCEPT ![get_thread_key(SharedChannel)] =
                    set_thread_metadata(@, procs[p].message_count, TRUE)]
    /\ procs' = [procs EXCEPT ![p].pc = "resolved"]
    /\ UNCHANGED <<liveThreads, nextThread>>
    /\ UNCHANGED <<conversation_lock, pc, job, loc, out, delivered, hist, redis_up>>
    /\ UNCHANGED <<sock, relay, registry, provider>>

NextProcesses ==
    \E p \in Workers :
       \/ ProcGetThreadId(p)
       \/ ProcProbe(p)
       \/ ProcCreateThread(p)
       \/ ProcSetThreadId(p)
       \/ ProcInitMetadata(p)
       \/ ProcGetMetadata(p)
       \/ ProcSetMetadata(p)

SpecProcesses == InitService /\ [][NextProcesses]_vars

\* ================================================================ claims
\* Positions of run_conversation past the lock acquisition (main.py:121-337).
LockRegion == {"rc_connect", "rc_subscribe", "rc_resolve", "rc_message",
               "rc_stream", "rc_poll", "rc_except", "rc_finally"}

\* Positions at which the job's thread_id is used for provider calls
\* (main.py:208-274).
UsesThread == {"rc_message", "rc_stream", "rc_poll"}

\* An error notification was attempted on the pub/sub transport.
Attempted(o) == o.errSent > 0 \/ o.sendFailed

\* C1: a callback invocation that has ended has acked exactly when
\* run_conversation observed is_complete; in every other outcome it has issued
\* one basic_reject with requeue=False and, for a job body, has attempted an
\* error notification.
C1_AckIffComplete ==
    \A w \in Workers :
       pc[w] = "done" =>
          IF out[w].observedComplete
          THEN out[w].acks = 1 /\ out[w].rejects = 0
          ELSE /\ out[w].acks = 0
               /\ out[w].rejects = 1
               /\ ~out[w].requeue
               /\ (job[w].body = "object" => Attempted(out[w]))

\* C2: a callback invocation that has ended has settled its delivery exactly
\* once: one basic_ack or one basic_reject, never neither and never both.
C2_SettledExactlyOnce ==
    \A w \in Workers : pc[w] = "done" => out[w].acks + out[w].rejects = 1

\* C3: at most one run_conversation invocation is past the lock acquisition,
\* and the lock is locked exactly while one is.
C3_SingleFlight ==
    /\ Cardinality({w \in Workers : pc[w] \in LockRegion}) <= 1
    /\ conversation_lock <=> (\E w \in Workers : pc[w] \in LockRegion)

\* C3's case: one invocation is inside the pipeline while another caller is
\* about to try the lock.
C3_Contention ==
    \E w, v \in Workers :
       /\ w # v
       /\ pc[w] = "rc_stream"
       /\ pc[v] = "rc_lock"

\* C4 as stated: a call that found the lock held when it was made has, once it
\* is past the start of run_conversation, returned the busy error without any
\* effect.
C4_BusyAtCall ==
    \A w \in Workers :
       (out[w].heldAtCall /\ pc[w] \notin {"rc_assistant", "rc_lock"}) =>
          /\ pc[w] = "cb_failed"
          /\ ~loc[w].success
          /\ loc[w].error_msg = MsgLockBusy
          /\ ~out[w].wsOpened /\ ~out[w].cacheUsed
          /\ ~out[w].msgCreated /\ ~out[w].runStarted

\* C4 amended: when the lock is held at the non-blocking acquire attempt
\* (which comes after the assistant id was read), that step returns
\* (False, "Another conversation is already in progress") with the lock still
\* held by the other job, no transport opened, the cache and the provider
\* untouched, no message created and no run started.
C4_BusyAtAcquire ==
    [][\A w \in Workers :
          (pc[w] = "rc_lock" /\ conversation_lock /\ pc'[w] # pc[w]) =>
             /\ pc'[w] = "cb_failed"
             /\ ~loc'[w].success
             /\ loc'[w].error_msg = MsgLockBusy
             /\ conversation_lock'
             /\ out'[w] = out[w]
             /\ ~out[w].wsOpened /\ ~out[w].cacheUsed
             /\ ~out[w].msgCreated /\ ~out[w].runStarted
             /\ ~loc'[w].ws
             /\ cache' = cache /\ liveThreads' = liveThreads
             /\ nextThread' = nextThread /\ hist' = hist]_vars

\* C4's case: a caller got the busy error while the other job still holds the
\* lock inside the pipeline.
C4_BusyReturned ==
    \E w, v \in Workers :
       /\ w # v
       /\ pc[w] = "cb_failed"
       /\ loc[w].error_msg = MsgLockBusy
       /\ pc[v] \in LockRegion
       /\ conversation_lock

\* The fields of a parsed job body that C5 calls invalid.
InvalidFields(d) ==
    \/ d.message \in {None, NotStr}
    \/ d.channel \in {None, Empty, NotStr}
    \/ d.message_id \in {None, Empty, NotStr}

\* C5: a parsed job body with an invalid message, channel or message_id never
\* reaches run_conversation (no cache lookup, no thread, no run), is never
\* acked, and its callback ends with one basic_reject with requeue=False.
C5_InvalidFieldsRejected ==
    \A w \in Workers :
       (job[w].body = "object" /\ InvalidFields(job[w])) =>
          /\ pc[w] \in {"cb_parse", "cb_failed", "done"}
          /\ ~out[w].rcCalled /\ ~out[w].cacheUsed
          /\ ~out[w].msgCreated /\ ~out[w].runStarted
          /\ out[w].acks = 0
          /\ loc[w].thread_id = None
          /\ (pc[w] \in {"cb_failed", "done"} =>
                ~loc[w].success /\ ~loc[w].should_requeue /\ loc[w].error_msg # "")
          /\ (pc[w] = "done" => out[w].rejects = 1 /\ ~out[w].requeue)

\* C5's case: a job whose only defect is an empty message_id has been rejected.
C5_EmptyIdRejected ==
    \E w \in Workers :
       /\ pc[w] = "done"
       /\ job[w].body = "object"
       /\ job[w].message = "hi"
       /\ job[w].channel \in Channels
       /\ job[w].message_id = Empty
       /\ out[w].rejects = 1

C7_TimeoutNeverAbsorbed ==
    \A w \in Workers :
       (pc[w] = "done" /\ out[w].rcCalled /\ loc[w].alarm = "fired") =>
          /\ out[w].timeoutNote
          /\ out[w].rejects = 1
          /\ ~out[w].requeue
          /\ out[w].acks = 0

\* C8: a job that ended in failure with every transport send succeeding has
\* published exactly one status=error message before it was settled.
C8_ExactlyOneError ==
    \A w \in Workers :
       (pc[w] = "done" /\ job[w].body = "object" /\ out[w].acks = 0
          /\ ~out[w].sendFailed) =>
          out[w].errSent = 1

\* C9: two successive resolutions of a channel with no provider-side deletion
\* of its thread in between return the same thread_id, whatever the probe and
\* the cache read did.
C9_SameThread ==
    \A c \in Channels :
       (hist[c].prev # None /\ ~hist[c].delBetween) => hist[c].last = hist[c].prev

\* C10 as stated: a job that saw NotFoundError and is past its handler has
\* left no cache entry for the channel, and no job uses a thread_id for which
\* NotFoundError was raised before.
C10_EntriesDeleted ==
    \A w \in Workers :
       /\ (out[w].nfSeen /\ pc[w] \in {"rc_finally", "cb_ok", "cb_failed", "done"}) =>
             cache[get_thread_key(job[w].channel)] = NoEntry
       /\ (pc[w] \in UsesThread /\ ~out[w].nfSeen) =>
             loc[w].thread_id \notin hist[job[w].channel].stale

\* C10 amended: the NotFoundError handler issues the delete before the
\* notification; when the cache performs it the entries stay gone until the
\* job ends, also when the notification send fails; and whether or not the
\* delete was performed, a later job never uses a thread_id for which
\* NotFoundError was raised.
C10_DeletedWhenPerformed ==
    \A w \in Workers :
       /\ (out[w].nfDeleted /\ pc[w] # "idle") => cache[get_thread_key(job[w].channel)] = NoEntry
       /\ (pc[w] \in UsesThread /\ ~out[w].nfSeen) =>
             loc[w].thread_id \notin hist[job[w].channel].stale

\* C10's case: after a NotFoundError on the channel the next job runs on a
\* live thread that is none of the stale ones.
C10_NextUsesNewThread ==
    \E w \in Workers :
       /\ pc[w] = "rc_message"
       /\ ~out[w].nfSeen
       /\ hist[job[w].channel].stale # {}
       /\ loc[w].thread_id \in liveThreads
       /\ loc[w].thread_id \notin hist[job[w].channel].stale

\* The thread ids channel c is known by: the cached one and those its last two
\* resolutions returned.
ThreadsOf(c) ==
    {cache[get_thread_key(c)].thread, hist[c].last, hist[c].prev} \ {None}

\* C11: no thread_id is cached for or used by two different channels: the
\* cached ids and the resolved ids of two channels are disjoint, and a job never
\* runs on a thread known for another channel.
C11_ThreadPerChannel ==
    \A c1, c2 \in AllChannels :
       c1 # c2 =>
          /\ ThreadsOf(c1) \cap ThreadsOf(c2) = {}
          /\ \A w \in Workers :
                (pc[w] \in UsesThread /\ job[w].channel = c1) =>
                   loc[w].thread_id \notin ThreadsOf(c2)

\* C11's case: jobs of two channels have both been resolved and cached.
C11_TwoChannelsResolved ==
    /\ hist["c1"].last # None
    /\ hist["c2"].last # None
    /\ cache[get_thread_key("c1")].thread # None
    /\ cache[get_thread_key("c2")].thread # None

\* C12: with no cache client a valid job still reaches session resolution;
\* run_conversation does not return the missing-assistant failure before any
\* provider call.
C12_CacheDownStillRuns ==
    \A w \in Workers :
       (~redis_up /\ out[w].rcCalled /\ pc[w] \in {"cb_failed", "done"}) =>
          /\ loc[w].error_msg # MsgNoAssistant
          /\ out[w].cacheUsed


\* The in-order concatenation d1 + ... + dn of a sequence of texts.
RECURSIVE Concatenation(_)
Concatenation(ds) ==
    IF ds = <<>> THEN <<>> ELSE Head(ds) \o Concatenation(Tail(ds))

\* C13: the message published with status=completed carries the in-order
\* concatenation of all text deltas the run delivered to the relay, also when a
\* tool-call round trip handed the text from the old handler to the new one.
C13_CompletedIsConcatenation ==
    \A n \in 1..Len(relay.published) :
        relay.published[n].status = "completed"
            => relay.published[n].message
                  = Concatenation(SubSeq(relay.deltas, 1, relay.completed_at))

\* A completed message was published for a run with a delta before and a delta
\* after a tool-call round trip.
C13_CompletedAfterHandoff ==
    /\ relay.phase = "done"
    /\ relay.rounds >= 1
    /\ Len(relay.deltas) >= 2
    /\ \E n \in 1..Len(relay.published) :
          /\ relay.published[n].status = "completed"
          /\ \E m \in 1..(n - 1) :
                /\ relay.published[m].status = "in_progress"
                /\ relay.published[m].message # relay.published[n].message


\* Two sent messages that follow each other, both with status=in_progress.
ConsecutiveFlushes(n) ==
    /\ n \in 1..(Len(relay.published) - 1)
    /\ relay.published[n].status = "in_progress"
    /\ relay.published[n + 1].status = "in_progress"

\* C14 as stated: any two consecutive in_progress flushes of one run are at
\* least the minimum inter-send interval apart.
C14_FlushesSpaced ==
    \A n \in 1..Len(relay.published) :
        ConsecutiveFlushes(n)
            => relay.published[n + 1].timestamp - relay.published[n].timestamp
                  >= min_send_interval

\* C14: two consecutive in_progress flushes of one run are at least the minimum
\* inter-send interval apart, unless the later one carries at least
\* min_chunk_size characters more than the earlier one or was sent by a new
\* handler after a tool-call round trip.
C14_FlushesSpacedOrFull ==
    \A n \in 1..Len(relay.published) :
        ConsecutiveFlushes(n)
            => \/ relay.published[n + 1].timestamp - relay.published[n].timestamp
                     >= min_send_interval
               \/ Len(relay.published[n + 1].message)
                     - Len(relay.published[n].message) >= min_chunk_size
               \/ relay.published[n + 1].handler > relay.published[n].handler

\* The same handler flushed twice within the interval.
C14_TwoFlushesSameInstant ==
    \E n \in 1..Len(relay.published) :
        /\ ConsecutiveFlushes(n)
        /\ relay.published[n + 1].timestamp = relay.published[n].timestamp
        /\ relay.published[n + 1].handler = relay.published[n].handler


\* C15: a tool that never returns does not hold the relay for ever: whenever
\* the relay waits in a tool, something is left that ends the wait, records the
\* fallback output and lets the loop go on to the submission.
C15_HungToolIsAbandoned ==
    relay.phase = "tool_wait" => ENABLED RelayToolAlarm


\* C16: while handle_tool_calls works through the tool calls t1..tn of a
\* requires_action event there is exactly one output per call already made, in
\* request order and with the call's id, whatever the calls did; every
\* submission hands over exactly the ids the event named, in one call per
\* event; and the relay fails only in the submission itself, never in a tool.
C16_OneOutputPerCall ==
    /\ relay.phase \in {"tools", "tool_wait"}
          => /\ OutputIds(relay.tool_outputs)
                   = SubSeq(CallIds(relay.calls), 1, relay.i - 1)
             /\ relay.requested = CallIds(relay.calls)
             /\ relay.rounds = 0 => relay.submitted = <<>>
    /\ relay.phase \notin {"tools", "tool_wait"}
          => /\ relay.submitted = relay.requested
             /\ relay.rounds = 0 <=> relay.requested = <<>>

\* Two tool calls were answered, one of them by the fallback after the alarm,
\* and both outputs were submitted.
C16_TwoOutputsSubmitted ==
    /\ relay.phase = "streaming"
    /\ relay.alarm = "fired"
    /\ relay.rounds = 1
    /\ relay.submitted = <<ToolIds[1], ToolIds[2]>>


\* C17: a send_message that found the connection closed makes a retry after
\* a connection-closed failure only on a connection that was brought back and
\* on which the channel was subscribed again.
C17_RetriesAfterResubscribe ==
    sock.call.pre = "closed" => sock.call.blind_retries = 0

\* C18: send_message on an open connection for a channel that is not in
\* subscribed_channels raises at once: ValueError, no frame written, no send
\* attempt, and subscribed_channels and the connection left as they were.
C18_UnsubscribedFailsFast ==
    [][(/\ Idle
        /\ sock.websocket = "open"
        /\ sock'.call # sock.call
        /\ sock'.call.channel \notin sock.subscribed_channels)
          => /\ sock'.call.pc = "raised"
             /\ sock'.call.error = "ValueError"
             /\ sock'.call.frames = <<>>
             /\ sock'.call.attempts = 0
             /\ sock'.call.retries = 0
             /\ sock'.subscribed_channels = sock.subscribed_channels
             /\ sock'.websocket = sock.websocket
             /\ sock'.server = sock.server]_vars

\* A send_message on an open connection was refused for its channel while
\* another channel was subscribed.
C18_RefusedOnOpenConnection ==
    /\ sock.call.pc = "raised"
    /\ sock.call.error = "ValueError"
    /\ sock.call.pre = "open"
    /\ sock.call.subs_before # {}

\* C19: connect() makes between one and max_retries attempts with one
\* retry_delay between two attempts, returns after the first attempt that
\* succeeds with the connection set, and raises, with the connection None,
\* exactly when all max_retries attempts fail.
C19_ConnectBounded ==
    sock.last_connect # NoConnect
        => LET r == sock.last_connect.result
               o == sock.last_connect.outcomes
           IN /\ r.attempts \in 1..max_retries
              /\ r.sleeps = r.attempts - 1
              /\ r.raised <=> \A k \in 1..max_retries : ~o[k]
              /\ r.raised => r.websocket = None /\ r.attempts = max_retries
              /\ ~r.raised => /\ r.websocket = "open"
                              /\ o[r.attempts]
                              /\ \A k \in 1..(r.attempts - 1) : ~o[k]

\* connect() succeeded at its last attempt, and the service holds the
\* connection.
C19_ConnectedAtLastAttempt ==
    /\ sock.last_connect # NoConnect
    /\ sock.last_connect.result.attempts = max_retries
    /\ ~sock.last_connect.result.raised
    /\ sock.websocket = "open"

\* C20: after a pass of the liveness task that brought the connection back
\* with no subscribe failing, every channel of subscribed_channels is
\* subscribed on the new connection.
C20_HealedConnectionSubscribed ==
    sock.healed => sock.subscribed_channels \subseteq sock.server


\* C21: disconnect() leaves the transport with no connection, no subscribed
\* channel and no liveness task, whatever state it is called in.
C21_DisconnectLeavesNothing ==
    [][SockDisconnect => /\ sock'.websocket = None
                         /\ sock'.subscribed_channels = {}
                         /\ ~sock'.ping_task]_vars


\* The tool the calls made so far leave registered under a name: the id of
\* the last one registered and not unregistered since, 0 when there is none.
RECURSIVE Latest(_, _)
Latest(calls, name) ==
    IF calls = <<>> THEN 0
    ELSE LET c == calls[Len(calls)]
         IN IF c.name = name
            THEN c.id
            ELSE Latest(SubSeq(calls, 1, Len(calls) - 1), name)

\* The positions of the definitions get_function_definitions returns under a
\* name.
DefinitionsOf(name) ==
    {j \in 1..Len(registry.tools) :
        get_function_definitions(registry.tools)[j].name = name}

\* C22: after any sequence of register/unregister calls the registry holds,
\* under each name, the tool most recently registered under it and not
\* unregistered since, and get_function_definitions returns exactly one
\* definition, that tool's, for every registered name and none for the others.
C22_LastWriteWins ==
    \A name \in ToolNames :
        IF Latest(registry.calls, name) = 0
        THEN DefinitionsOf(name) = {}
        ELSE /\ Cardinality(DefinitionsOf(name)) = 1
             /\ \A j \in DefinitionsOf(name) :
                   /\ registry.tools[j].id = Latest(registry.calls, name)
                   /\ get_function_definitions(registry.tools)[j].of
                         = Latest(registry.calls, name)

\* One name was registered twice, with two tools, next to another name.
C22_Overwritten ==
    /\ Len(registry.tools) = 2
    /\ \E j, k \in 1..Len(registry.calls) :
          /\ j < k
          /\ registry.calls[j].op = "register"
          /\ registry.calls[k].op = "register"
          /\ registry.calls[j].name = registry.calls[k].name
          /\ registry.calls[j].id # registry.calls[k].id


\* C23: when the run resumed after a tool-call round trip has delivered
\* message.completed or run.completed to the new handler, the completion flag
\* the wait loop of run_conversation polls is true.
C23_CompletionReachesPoll ==
    (relay.rounds >= 1 /\ relay.h.is_complete) => relay.polled


\* C24: message.completed makes exactly one send attempt, of a message with
\* status=completed and final_message=true that carries the whole
\* message_content, and is_complete becomes true only after that attempt: while
\* the attempt is the last thing done the flag is still false, and a flag set
\* by message.completed has the attempt behind it.
C24_FinalFlushBeforeComplete ==
    /\ Len(relay.finals) <= 1
    /\ \A n \in 1..Len(relay.finals) :
          relay.finals[n] = [status |-> "completed", final_message |-> TRUE,
                             message |-> Concatenation(SubSeq(relay.deltas, 1,
                                                              relay.completed_at))]
    /\ relay.phase = "completing"
          => Len(relay.finals) = 1 /\ ~relay.h.is_complete
    /\ (relay.h.is_complete /\ relay.run_completed = 0)
          => Len(relay.finals) = 1

\* message.completed arrived after text that had been flushed, its final
\* message was attempted and could not be sent, and is_complete is true.
C24_CompleteAfterFailedFinal ==
    /\ relay.h.is_complete
    /\ relay.run_completed = 0
    /\ Len(relay.finals) = 1
    /\ relay.published # <<>>
    /\ \A n \in 1..Len(relay.published) :
          relay.published[n].status = "in_progress"


\* C25: run.completed leaves is_complete true, publishes nothing and attempts
\* no final message, and when it follows message.completed or an earlier
\* run.completed it changes nothing at all: the transport stays disconnected;
\* is_complete of a handler, and the flag the wait loop polls, never go back to
\* false.
C25_RunCompletedIdempotent ==
    [][/\ RelayRunCompleted
          => /\ relay'.h.is_complete
             /\ relay'.published = relay.published
             /\ relay'.finals = relay.finals
             /\ ~relay'.connected
             /\ relay.h.is_complete
                   => relay' = [relay EXCEPT !.run_completed = @ + 1,
                                             !.attempt = "none"]
       /\ relay.polled => relay'.polled
       /\ (relay.h.is_complete /\ relay'.rounds = relay.rounds)
             => relay'.h.is_complete]_vars

\* run.completed was handled twice after message.completed.
C25_CompletedThreeTimes ==
    /\ relay.run_completed = 2
    /\ Len(relay.finals) = 1
    /\ relay.h.is_complete


\* C26: a text delta is appended to message_content and to the unsent buffer
\* and causes an in_progress send attempt exactly when the buffer then holds at
\* least min_chunk_size characters or at least the minimum interval has passed
\* since the last successful flush, so always when this handler has not flushed
\* yet; a successful send publishes the whole message_content, clears the
\* buffer and notes the time, and without one the buffer keeps its content and
\* the time of the last flush stays.
C26_FlushCondition ==
    [][Len(relay'.deltas) > Len(relay.deltas)
          => LET d == relay'.deltas[Len(relay'.deltas)]
                 buffer == relay.h.accumulated_content \o d
                 text == relay.h.message_content \o d
             IN /\ relay'.h.message_content = text
                /\ relay'.attempt # "none"
                      <=> \/ Len(buffer) >= min_chunk_size
                          \/ relay.clock - relay.h.last_ws_send_time
                                >= min_send_interval
                /\ relay.h.last_ws_send_time = 0 => relay'.attempt # "none"
                /\ relay'.attempt = "sent"
                      => /\ relay'.h.accumulated_content = <<>>
                         /\ relay'.h.last_ws_send_time = relay.clock
                         /\ Len(relay'.published) = Len(relay.published) + 1
                         /\ relay'.published[Len(relay'.published)].message = text
                         /\ relay'.published[Len(relay'.published)].status
                               = "in_progress"
                /\ relay'.attempt # "sent"
                      => /\ relay'.h.accumulated_content = buffer
                         /\ relay'.h.last_ws_send_time = relay.h.last_ws_send_time
                         /\ relay'.published = relay.published]_vars

\* Two deltas were handled, the flush of each was attempted and failed, and the
\* buffer holds the text of both.
C26_FailedFlushStaysBuffered ==
    /\ relay.attempt = "failed"
    /\ Len(relay.deltas) = 2
    /\ relay.published = <<>>
    /\ relay.h.accumulated_content = relay.deltas[1] \o relay.deltas[2]


\* One text is the beginning of another.
IsPrefix(a, b) == Len(a) <= Len(b) /\ SubSeq(b, 1, Len(a)) = a

\* C27: the response messages of one run are published in generation order:
\* each in_progress flush carries a proper extension of the text of the flush
\* before it, every in_progress text is a prefix of the text of the completed
\* message, and nothing is published after the completed message.
C27_GenerationOrder ==
    \A n \in 1..Len(relay.published) :
        /\ (/\ n < Len(relay.published)
            /\ relay.published[n].status = "in_progress"
            /\ relay.published[n + 1].status = "in_progress")
              => /\ IsPrefix(relay.published[n].message,
                             relay.published[n + 1].message)
                 /\ Len(relay.published[n].message)
                       < Len(relay.published[n + 1].message)
        /\ relay.published[n].status = "completed"
              => /\ n = Len(relay.published)
                 /\ \A m \in 1..(n - 1) :
                       IsPrefix(relay.published[m].message,
                                relay.published[n].message)

\* Two flushes and the completed message were published.
C27_TwoFlushesThenCompleted ==
    /\ Len(relay.published) = 3
    /\ relay.published[1].status = "in_progress"
    /\ relay.published[2].status = "in_progress"
    /\ relay.published[3].status = "completed"
    /\ relay.phase = "done"


\* C28: the output recorded for a tool call is never the raw text of the
\* exception the tool raised.
C28_NoRawExceptionText ==
    \A j \in 1..Len(relay.tool_outputs) :
        relay.tool_outputs[j].output # "str(e)"


\* C29: on_error is invoked once for a provider failure in create_message,
\* stream_conversation or submit_tool_outputs.  Each such failure is one step,
\* and one invocation makes one send attempt, so no step publishes more than
\* one status=error message.
C29_OnErrorOncePerFailure ==
    [][\A w \in Workers : out'[w].errSent <= out[w].errSent + 1]_vars

\* C30: when a delivery carries a reply_to address and the job fails field
\* validation or fails with a stream error, exactly one {success: false, error}
\* response has been published to that address once the delivery is rejected.
C30_FailureRepliesOnce ==
    \A w \in Workers :
       ( /\ job[w].body = "object"
         /\ job[w].reply_to
         /\ ValidationError(job[w]) # "" \/ loc[w].exc # "none"
         /\ out[w].rejects > 0 )
       => out[w].replies = 1

\* A run of the job was started and the job has failed on time alone: through
\* the 90 s alarm or a watchdog of the wait loop, with every transport send
\* succeeding and the thread in place.
TimedOut(w) ==
    /\ pc[w] = "cb_failed"
    /\ out[w].runStarted
    /\ ~out[w].sendFailed
    /\ ~out[w].nfSeen
    /\ loc[w].error_msg \in {MsgTimeout, MsgNoResponse, MsgInterrupted}

\* C31: a job whose run delivered no event and that failed on time alone has
\* failed with "No response received from assistant", and a type=timeout
\* notification has been published on its channel; also when it was the
\* streaming call that waited for the first event.
C31_NoResponseWatchdog ==
    \A w \in Workers :
       (TimedOut(w) /\ loc[w].nev = 0)
       => (loc[w].error_msg = MsgNoResponse /\ out[w].timeoutNote)

\* C32: a job whose run delivered an event but no completion and that failed
\* on time alone has failed with "Response stream interrupted", and a
\* type=timeout notification has been published on its channel.
C32_StallWatchdog ==
    \A w \in Workers :
       (TimedOut(w) /\ loc[w].nev > 0 /\ loc[w].phase = "active")
       => (loc[w].error_msg = MsgInterrupted /\ out[w].timeoutNote)

\* The channel of w's job has a session: a cached thread_id with its metadata.
HasSession(w) ==
    LET e == cache[get_thread_key(job[w].channel)]
    IN e.thread # None /\ e.meta.present

\* C33: a resolution of a channel that has a session, with nothing deleted or
\* expired, leaves message_count one higher than it found it, whether the
\* cached thread is still there or stale and whether the read of the
\* thread_id succeeds or fails; every cache write succeeds.
C33_CountIncrements ==
    \A w \in Workers :
       (pc[w] = "rc_resolve" /\ redis_up /\ HasSession(w) /\ nextThread <= MaxThreads)
       => \A getOk, probeOk \in BOOLEAN :
             LET c == job[w].channel
                 e == cache[get_thread_key(c)]
                 r == Resolution(e, c, redis_up, liveThreads, ThreadNames[nextThread],
                                 getOk, probeOk, TRUE, TRUE)
             IN r.entry.meta.message_count = e.meta.message_count + 1

\* The cache holds a thread_id for the channel of w's job that the provider
\* no longer has, so the existence probe reports it missing.
StaleCached(w) ==
    LET e == cache[get_thread_key(job[w].channel)]
    IN redis_up /\ e.thread # None /\ e.thread \notin liveThreads

\* C34 as stated: a resolution that finds a stale cached thread_id creates a
\* new thread, runs the job on it and leaves thread:{channel} holding the new
\* id.
C34_StaleThreadOverwritten ==
    [][\A w \in Workers :
          (pc[w] = "rc_resolve" /\ StaleCached(w) /\ pc'[w] = "rc_message")
          => LET new == ThreadNames[nextThread]
             IN /\ new \in liveThreads' \ liveThreads
                /\ loc'[w].thread_id = new
                /\ cache'[get_thread_key(job[w].channel)].thread = new]_vars

\* C34 amended: a resolution that finds a stale cached thread_id creates a
\* new thread and the job goes on to create_message and stream_conversation
\* with the new id, never the stale one; thread:{channel} holds the new id
\* whenever the cache performs the write, and still the stale id otherwise.
C34_StaleThreadReplaced ==
    [][\A w \in Workers :
          (pc[w] = "rc_resolve" /\ StaleCached(w) /\ pc'[w] = "rc_message")
          => LET new == ThreadNames[nextThread]
                 c == job[w].channel
                 e == cache[get_thread_key(c)]
             IN /\ new \in liveThreads' \ liveThreads
                /\ loc'[w].thread_id = new
                /\ cache'[get_thread_key(c)].thread \in {new, e.thread}
                /\ \A getOk, probeOk, metaOk \in BOOLEAN :
                      Resolution(e, c, redis_up, liveThreads, new,
                                 getOk, probeOk, TRUE, metaOk).entry.thread = new]_vars

\* C34's case: the thread of the channel's previous job was deleted at the
\* provider, the next resolution found its id in the cache (the metadata went
\* on counting) and the job is about to create its message on a new thread
\* that the cache now points to.
C34_RunsOnReplacement ==
    \E w \in Workers :
       LET c == job[w].channel
           e == cache[get_thread_key(c)]
       IN /\ pc[w] = "rc_message"
          /\ hist[c].prev # None
          /\ hist[c].prev \notin liveThreads
          /\ hist[c].stale = {}
          /\ loc[w].thread_id # hist[c].prev
          /\ loc[w].thread_id \in liveThreads
          /\ e.thread = loc[w].thread_id
          /\ e.meta = Meta(2)

\* C35: messages.create is never called on a thread whose run is queued,
\* in_progress or requires_action.
C35_NoMessageOnActiveRun ==
    \A i \in 1..Len(provider.created) : provider.created[i] \notin ActiveStatuses

\* C36: every step by which an invocation leaves the part of run_conversation
\* behind the lock acquisition finds the lock held and releases it, whatever
\* the exit (return, exception, alarm, exception out of an except or finally
\* block); the returns before the acquisition (no assistant id, lock busy)
\* leave the lock as it is; and once no invocation is behind the acquisition
\* the lock is free, so that the next acquire succeeds.
C36_ReleasedOnEveryExit ==
    [][\A w \in Workers :
          /\ (pc[w] \in LockRegion /\ pc'[w] \notin LockRegion)
                => (conversation_lock /\ ~conversation_lock')
          /\ (pc[w] \in {"rc_assistant", "rc_lock"} /\ pc'[w] = "cb_failed")
                => conversation_lock' = conversation_lock
          /\ (\A v \in Workers : pc'[v] \notin LockRegion)
                => acquire_nonblocking(conversation_lock').entered]_vars

\* C36's case: an exception left run_conversation through an except or finally
\* block after the transport was opened, and the lock is free again.
C36_ReleasedAfterEscape ==
    \E w \in Workers :
       /\ pc[w] = "cb_failed"
       /\ out[w].wsOpened
       /\ loc[w].error_msg = MsgProcessing
       /\ ~conversation_lock

\* C37: a delivery that has been acked has had its status=completed message
\* sent successfully on the job's channel before.
C37_AckOnlyAfterCompletedSent ==
    \A w \in Workers : out[w].acks > 0 => out[w].completedSent

\* C38: a job whose status=completed message has been published gets no
\* status=error message on its channel, neither from run_conversation nor from
\* the callback, and its callback ends with the delivery acked.
C38_CompletedExcludesError ==
    \A w \in Workers :
       out[w].completedSent =>
          /\ out[w].errSent = 0
          /\ (pc[w] = "done" => out[w].acks = 1)

\* C39: while the transport has an open connection, every channel of
\* subscribed_channels has had its subscribe frame sent successfully on that
\* connection, also after a reconnect made by send_message or by the liveness
\* task.
C39_SubscribedOnCurrentConnection ==
    sock.websocket = "open" => sock.subscribed_channels \subseteq sock.server

\* C40: when two worker processes have resolved the same channel, which had
\* no cached mapping, both run on the same thread_id, thread:{channel} holds
\* that id, and the metadata has counted both jobs.
C40_ConcurrentResolutionAgrees ==
    (\A p \in Workers : procs[p].pc = "resolved")
    => LET e == cache[get_thread_key(SharedChannel)]
       IN /\ \A p \in Workers : procs[p].thread_id = e.thread
          /\ e.meta = Meta(2)

====
